---- MODULE Spec2Model ----
(***************************************************************************)
(* Stamp identification core: StampClassifier (Stage 1B),                  *)
(* DetectionPipeline (Stages 1A-1C), RAGSearcher and StampIdentifier.      *)
(*                                                                         *)
(* Numbers.  Python floats are modelled by exact integers:                 *)
(*   - a heuristic score s in [0,1] is the integer s * ScoreOne;           *)
(*   - a weight or a threshold t is the integer t * 100 (per cent);        *)
(*   - a confidence c is the integer c * ConfOne, ConfOne = 200*ScoreOne   *)
(*     (the factor 2 keeps the "both" mode's average exact);               *)
(*   - an edge density is per mille, a similarity is per cent.             *)
(***************************************************************************)
EXTENDS Integers, Sequences, FiniteSets, TLC

VARIABLES
    \* ---- StampClassifier under test (SpecClassify)
    cl_clf,         \* the constructed classifier: [config, model]
    cl_crop,        \* the crop last passed to classify
    cl_verdict,     \* what classify returned
    cl_pc,          \* "idle" | "returned" | "raised"
    \* ---- DetectionPipeline (Spec)
    dp_pipeline,    \* the DetectionPipeline object
    dp_world,       \* what the YOLO detector finds on this machine
    dp_pc,          \* "idle" | "returned" | "raised"
    dp_image,       \* the image of the current detect_stamps call
    dp_flag,        \* its use_yolo_fallback argument
    dp_result,      \* what the call produced
    dp_calls,       \* detect_stamps calls made so far
    \* ---- RAGSearcher (SpecSearch)
    sr_searcher,    \* the RAGSearcher object
    sr_settings,    \* get_settings(): thresholds and configured keys
    sr_env,         \* the embedding provider and the stamps_rag table
    sr_pc,          \* "idle" | "returned" | "raised"
    sr_query,       \* the arguments of the current identify call
    sr_outcome,     \* what the call produced
    \* ---- StampIdentifier (SpecIdentify)
    id_pc,          \* "idle" | "identifying" | "returned" | "raised"
    id_accepted,    \* accepted_stamps of the current identify_image call
    id_idx,         \* the loop's position in accepted_stamps
    id_session,     \* session.detections
    id_identifications, \* the batch's identifications
    id_missed,      \* the files in missed_stamps/
    id_attempts,    \* how each _identify_stamp call so far ended
    \* ---- threads sharing one DetectionPipeline (SpecThreads)
    th_pipeline,    \* the shared pipeline: [config, yolo_detector, yolo_built]
    th_heap,        \* the YOLODetector objects constructed so far
    th_world,       \* what the YOLO detector finds on this machine
    th_pc,          \* each thread's position in _run_yolo_fallback
    th_yolo,        \* each thread's local variable yolo (0 is None)
    \* ---- identify calls running at once on one RAGSearcher (SpecAsync)
    as_world,       \* how the searcher was built, the settings, the store
    as_searcher,    \* the shared RAGSearcher object
    as_pc,          \* each call's position in identify
    as_query,       \* each call's description and top_k
    as_result,      \* what each call produced
    \* ---- identify calls repeated on one RAGSearcher (SpecRepeat)
    rp_calls,       \* identify calls made so far
    rp_prev,        \* the call before the current one: its query, how it
                    \* ended, and the store it left
    \* ---- RAGSearcher.find_similar (SpecSimilar)
    fs_pc,          \* "idle" | "returned" | "raised"
    fs_query,       \* the arguments of the current find_similar call
    fs_outcome,     \* what the call produced
    \* ---- PolygonDetector (SpecPolygon)
    pg_config,      \* the detector's DetectionConfig
    pg_image,       \* the image of the current detect call
    pg_result,      \* the list detect returned
    pg_pc,          \* "idle" | "returned" | "raised"
    \* ---- EmbeddingGenerator.embed_batch (SpecEmbed)
    eb_texts,       \* the texts of the current embed_batch call
    eb_provider,    \* the number of the embeddings.create call that fails (0: none)
    eb_result,      \* the list the call returned, or the error it raised
    eb_pc,          \* "idle" | "returned" | "raised"
    \* ---- SessionManager and its output directory (SpecQueue)
    sm_manager,     \* the SessionManager object
    sm_sessions,    \* the ScanSession objects made so far, and how often each was saved
    sm_files,       \* the files under output_dir
    sm_json,        \* the session.json written for each session
    sm_last,        \* the last call: its arguments, the files before it, its outcome
    sm_calls,       \* calls made so far
    \* ---- BrowserManager.goto (SpecGoto)
    br_manager,     \* the BrowserManager object
    br_url,         \* the url of the current goto call
    br_attempt,     \* the loop variable attempt
    br_history,     \* what each page.goto call of the current goto call gave
    br_pc,          \* "idle" | "loop" | "returned" | "raised"
    br_error,       \* the exception the call raised
    \* ---- PolygonDetector._order_points (SpecOrder)
    op_pts,         \* the four vertices passed to _order_points
    op_result,      \* the array it returned
    op_pc,          \* "idle" | "called" | "returned"
    \* ---- ColnectScraper.scrape_themes (SpecScrape)
    sc_file,        \* the checkpoint file
    sc_run,         \* the arguments and local variables of the current call
    sc_pc,          \* "idle" | "running" | "returned" | "raised"
    sc_result,      \* the count the call returned
    sc_calls        \* scrape_themes calls finished so far

cl_vars == <<cl_clf, cl_crop, cl_verdict, cl_pc>>
dp_vars == <<dp_pipeline, dp_world, dp_pc, dp_image, dp_flag, dp_result, dp_calls>>

sr_vars == <<sr_searcher, sr_settings, sr_env, sr_pc, sr_query, sr_outcome>>

id_vars == <<id_pc, id_accepted, id_idx, id_session, id_identifications, id_missed,
             id_attempts>>

th_vars == <<th_pipeline, th_heap, th_world, th_pc, th_yolo>>

\* the variables of the specifications of concurrent use
as_vars == <<as_world, as_searcher, as_pc, as_query, as_result>>

rp_vars == <<rp_calls, rp_prev>>

fs_vars == <<fs_pc, fs_query, fs_outcome>>

pg_vars == <<pg_config, pg_image, pg_result, pg_pc>>

eb_vars == <<eb_texts, eb_provider, eb_result, eb_pc>>

sm_vars == <<sm_manager, sm_sessions, sm_files, sm_json, sm_last, sm_calls>>

br_vars == <<br_manager, br_url, br_attempt, br_history, br_pc, br_error>>

op_vars == <<op_pts, op_result, op_pc>>

sc_vars == <<sc_file, sc_run, sc_pc, sc_result, sc_calls>>

aux_vars == <<eb_vars, sm_vars, br_vars, op_vars, sc_vars>>

ext_vars == <<th_vars, as_vars, rp_vars, fs_vars, pg_vars, aux_vars>>

\* the variables of the specifications above, for those below
core_vars == <<cl_vars, dp_vars, sr_vars, id_vars, th_vars, as_vars, rp_vars, fs_vars, pg_vars>>

vars == <<cl_vars, dp_vars, sr_vars, id_vars, ext_vars>>

Min(a, b) == IF a <= b THEN a ELSE b
Max(a, b) == IF a >= b THEN a ELSE b
Abs(a) == IF a >= 0 THEN a ELSE -a
Range(s) == {s[k] : k \in 1..Len(s)}

(***************************************************************************)
(* StampClassifier (Stage 1B)                                              *)
(***************************************************************************)

\* one score unit: lcm of the denominators 10000, 250, 150, 180 and the mean's 2
ScoreOne == 18 * 10000
ConfOne == 200 * ScoreOne

\* ClassifierConfig defaults
DefaultConfidenceThreshold == 60
DefaultColorVarianceWeight == 35
DefaultEdgeComplexityWeight == 30
DefaultSizeWeight == 20
DefaultPerforationWeight == 15
MinColorVariance == 500
MinEdgeDensity == 50
MinStampWidth == 50
MaxStampWidth == 500
MinStampHeight == 50
MaxStampHeight == 500
PerforationEdgeBand == 5
PerforationVarianceHigh == 1000
PerforationVarianceLow == 200
\* constants of the heuristics
MaxExpectedVariance == 10000
EdgeDensityCeiling == 250
IdealWidth == 150
IdealHeight == 180

ClassifierConfig(mode, thr, wc, we, ws, wp, path) ==
    [mode |-> mode, confidence_threshold |-> thr,
     color_variance_weight |-> wc, edge_complexity_weight |-> we,
     size_weight |-> ws, perforation_weight |-> wp,
     min_color_variance |-> MinColorVariance,
     min_edge_density |-> MinEdgeDensity,
     min_stamp_width |-> MinStampWidth, max_stamp_width |-> MaxStampWidth,
     min_stamp_height |-> MinStampHeight, max_stamp_height |-> MaxStampHeight,
     perforation_edge_band |-> PerforationEdgeBand,
     perforation_variance_high |-> PerforationVarianceHigh,
     perforation_variance_low |-> PerforationVarianceLow,
     model_path |-> path]

DefaultClassifierConfig ==
    ClassifierConfig("heuristic", DefaultConfidenceThreshold,
                     DefaultColorVarianceWeight, DefaultEdgeComplexityWeight,
                     DefaultSizeWeight, DefaultPerforationWeight, "none")

\* model_path: "none" (not given), "missing" (no such file), "present"
ModelPaths == {"none", "missing", "present"}
Modes == {"heuristic", "model", "both"}

\* StampClassifier.__init__ with _load_model: a missing artifact switches the
\* mode to "heuristic"; a present artifact is not loaded (the loader is a TODO),
\* so self.model stays None in every case.
StampClassifierNew(config) ==
    LET load == config.mode \in {"model", "both"} /\ config.model_path # "none"
    IN  [config |-> IF load /\ config.model_path = "missing"
                    THEN [config EXCEPT !.mode = "heuristic"]
                    ELSE config,
         model |-> "None"]

\* A crop as the heuristics see it.  ok = FALSE: cv2.cvtColor raises on it
\* (an empty or None image).  var: summed LAB channel variance; dens: Canny
\* edge density (per mille); w, h: shape; pvar: mean edge-band variance.
Crop(ok, var, dens, w, h, pvar) ==
    [none |-> FALSE, ok |-> ok, var |-> var, dens |-> dens, w |-> w, h |-> h,
     pvar |-> pvar]

\* cropped_image = None
NoneCrop ==
    [none |-> TRUE, ok |-> FALSE, var |-> 0, dens |-> 0, w |-> 0, h |-> 0, pvar |-> 0]

_check_color_variance(cfg, crop) ==
    IF ~crop.ok THEN ScoreOne \div 2
    ELSE IF crop.var < cfg.min_color_variance THEN ScoreOne \div 10
    ELSE Min(crop.var * (ScoreOne \div MaxExpectedVariance), ScoreOne)

\* No try/except here: callers see the cv2 error (crop.ok = FALSE) in classify.
_check_edge_complexity(cfg, crop) ==
    IF crop.dens < cfg.min_edge_density THEN ScoreOne \div 5
    ELSE Min(crop.dens * (ScoreOne \div EdgeDensityCeiling), ScoreOne)

_check_size(cfg, crop) ==
    LET width_score ==
            IF crop.w < cfg.min_stamp_width \/ crop.w > cfg.max_stamp_width
            THEN (3 * ScoreOne) \div 10
            ELSE ScoreOne - Min(Abs(crop.w - IdealWidth) * (ScoreOne \div IdealWidth),
                                (7 * ScoreOne) \div 10)
        height_score ==
            IF crop.h < cfg.min_stamp_height \/ crop.h > cfg.max_stamp_height
            THEN (3 * ScoreOne) \div 10
            ELSE ScoreOne - Min(Abs(crop.h - IdealHeight) * (ScoreOne \div IdealHeight),
                                (7 * ScoreOne) \div 10)
    IN  (width_score + height_score) \div 2

_check_perforation_hint(cfg, crop) ==
    IF ~crop.ok THEN ScoreOne \div 2
    ELSE IF ~(crop.h > cfg.perforation_edge_band)
            /\ ~(crop.w > cfg.perforation_edge_band) THEN ScoreOne \div 2
    ELSE IF crop.pvar > cfg.perforation_variance_high THEN ScoreOne
    ELSE IF crop.pvar < cfg.perforation_variance_low THEN (3 * ScoreOne) \div 10
    ELSE ScoreOne \div 2

ScoreNames ==
    <<"color_variance", "edge_complexity", "size_plausibility", "perforation_hint">>

\* Python's max(scores, key=scores.get) / min(...): the first key, in insertion
\* order, whose score is the largest / smallest.
ArgMax(scores) ==
    LET best == CHOOSE k \in 1..4 :
                    /\ \A j \in 1..4 : scores[ScoreNames[j]] <= scores[ScoreNames[k]]
                    /\ \A j \in 1..(k - 1) : scores[ScoreNames[j]] < scores[ScoreNames[k]]
    IN  ScoreNames[best]

ArgMin(scores) ==
    LET best == CHOOSE k \in 1..4 :
                    /\ \A j \in 1..4 : scores[ScoreNames[j]] >= scores[ScoreNames[k]]
                    /\ \A j \in 1..(k - 1) : scores[ScoreNames[j]] > scores[ScoreNames[k]]
    IN  ScoreNames[best]

Raised == [raised |-> TRUE]

StampClassification(is_stamp, confidence, reason, details) ==
    [raised |-> FALSE, is_stamp |-> is_stamp, confidence |-> confidence,
     reason |-> reason, details |-> details]

\* mutant: a strict comparison
MeetsThresholdStrict(cfg, confidence) ==
    confidence > cfg.confidence_threshold * (ConfOne \div 100)

\* is_stamp = (confidence >= confidence_threshold), both sides in ConfOne units
MeetsThreshold(cfg, confidence) ==
    confidence >= cfg.confidence_threshold * (ConfOne \div 100)

\* the four sub-scores of _heuristic_check
HeuristicScores(cfg, crop) ==
    [color_variance |-> _check_color_variance(cfg, crop),
     edge_complexity |-> _check_edge_complexity(cfg, crop),
     size_plausibility |-> _check_size(cfg, crop),
     perforation_hint |-> _check_perforation_hint(cfg, crop)]

\* its weighted confidence
WeightedConfidence(cfg, scores) ==
    2 * (scores.color_variance * cfg.color_variance_weight
       + scores.edge_complexity * cfg.edge_complexity_weight
       + scores.size_plausibility * cfg.size_weight
       + scores.perforation_hint * cfg.perforation_weight)

\* its verdict and primary reason
HeuristicVerdict(cfg, scores, confidence, is_stamp) ==
    StampClassification(is_stamp, confidence,
                        IF is_stamp THEN ArgMax(scores) ELSE ArgMin(scores),
                        scores)

HeuristicOf(cfg, scores, confidence) ==
    HeuristicVerdict(cfg, scores, confidence, MeetsThreshold(cfg, confidence))

HeuristicFrom(cfg, scores) ==
    HeuristicOf(cfg, scores, WeightedConfidence(cfg, scores))

\* _check_edge_complexity's cvtColor is unguarded: a crop cv2 cannot convert
\* makes the whole check raise
_heuristic_check(cfg, crop) ==
    IF ~crop.ok THEN Raised ELSE HeuristicFrom(cfg, HeuristicScores(cfg, crop))

\* Both branches return the placeholder verdict: is_stamp = True at 0.5.
_model_predict(clf, crop) ==
    IF clf.model = "None"
    THEN StampClassification(TRUE, ConfOne \div 2, "model_unavailable",
                             [error |-> "Model not loaded"])
    ELSE StampClassification(TRUE, ConfOne \div 2, "model_placeholder",
                             [warning |-> "Model inference not implemented"])

\* the "both" mode's average of the two confidences
CombinedVerdict(cfg, heuristic, model, combined_conf) ==
    StampClassification(MeetsThreshold(cfg, combined_conf), combined_conf,
                        <<"combined", heuristic.reason, model.reason>>,
                        [heuristic |-> heuristic.details, model |-> model.details])

Combine(cfg, heuristic, model) ==
    IF heuristic.raised THEN Raised
    ELSE CombinedVerdict(cfg, heuristic, model,
                         (heuristic.confidence + model.confidence) \div 2)

\* mutant: the mode alone picks the branch, whether a model is loaded or not
classifyByMode(clf, crop) ==
    IF clf.config.mode = "model" THEN _model_predict(clf, crop)
    ELSE IF clf.config.mode = "both"
    THEN Combine(clf.config, _heuristic_check(clf.config, crop),
                 _model_predict(clf, crop))
    ELSE _heuristic_check(clf.config, crop)

classify(clf, crop) ==
    IF clf.config.mode = "model" /\ clf.model # "None"
    THEN _model_predict(clf, crop)
    ELSE IF clf.config.mode = "both" /\ clf.model # "None"
    THEN Combine(clf.config, _heuristic_check(clf.config, crop),
                 _model_predict(clf, crop))
    ELSE _heuristic_check(clf.config, crop)

(***************************************************************************)
(* PolygonDetector (Stage 1A)                                              *)
(***************************************************************************)

\* DetectionConfig defaults; ratios are per mille of the image area, aspect
\* ratios are tenths
MinVertices == 3
MaxVertices == 4
MinAreaRatio == 1
MaxAreaRatio == 150
AspectRatioMin == 3
AspectRatioMax == 30

DetectionConfig ==
    [min_vertices |-> MinVertices, max_vertices |-> MaxVertices,
     min_area_ratio |-> MinAreaRatio, max_area_ratio |-> MaxAreaRatio,
     aspect_ratio_min |-> AspectRatioMin, aspect_ratio_max |-> AspectRatioMax,
     require_convex |-> TRUE]

\* What cv2 reports for one external contour of the image: its area, the
\* vertices and bounding box of its approxPolyDP polygon, its convexity, and
\* the crop _extract_crop cuts for it.
Contour(area, verts, convex, box, crop) ==
    [area |-> area, verts |-> verts, convex |-> convex, box |-> box, crop |-> crop]

\* a DetectionConfig with other vertex limits and convexity requirement
DetectionConfigOf(min_vertices, max_vertices, require_convex) ==
    [DetectionConfig EXCEPT !.min_vertices = min_vertices,
                            !.max_vertices = max_vertices,
                            !.require_convex = require_convex]

\* _process_contour returns None; raised: it raises instead of returning
NoPolygon == [none |-> TRUE, raised |-> FALSE]

\* _extract_quad_crop reshapes the vertices to (4, 2): ValueError for a polygon
\* that passed the filters with neither 3 nor 4 vertices
RaisedPolygon == [none |-> TRUE, raised |-> TRUE]

\* mutant: every shape is tagged a quadrilateral
ShapeTypeQuad(num_vertices) == "quadrilateral"

ShapeType(num_vertices) == IF num_vertices = 3 THEN "triangle" ELSE "quadrilateral"

_process_contour(config, contour, image_area) ==
    LET num_vertices == Len(contour.verts)
        w == contour.box[3]
        h == contour.box[4]
    IN  IF 1000 * contour.area < image_area * config.min_area_ratio
           \/ 1000 * contour.area > image_area * config.max_area_ratio
        THEN NoPolygon
        ELSE IF num_vertices < config.min_vertices \/ num_vertices > config.max_vertices
        THEN NoPolygon
        ELSE IF config.require_convex /\ ~contour.convex
        THEN NoPolygon
        \* aspect_ratio = w / h if h > 0 else 0
        ELSE IF (IF h > 0 THEN 10 * w < config.aspect_ratio_min * h ELSE 0 < config.aspect_ratio_min)
                \/ (IF h > 0 THEN 10 * w > config.aspect_ratio_max * h ELSE FALSE)
        THEN NoPolygon
        ELSE IF ShapeType(num_vertices) # "triangle" /\ num_vertices # 4
        THEN RaisedPolygon
        ELSE [none |-> FALSE, raised |-> FALSE,
              vertices |-> [none |-> FALSE, points |-> contour.verts],
              bounding_box |-> contour.box,
              shape_type |-> ShapeType(num_vertices),
              area |-> contour.area,
              cropped_image |-> contour.crop,
              confidence |-> 100]

KeepPolygon(polygon, rest) ==
    IF polygon.none THEN rest ELSE <<polygon>> \o rest

RECURSIVE PolygonsFrom(_, _, _)
PolygonsFrom(config, contours, image_area) ==
    IF contours = <<>> THEN <<>>
    ELSE KeepPolygon(_process_contour(config, Head(contours), image_area),
                     PolygonsFrom(config, Tail(contours), image_area))

\* the loop of PolygonDetector.detect is left by an exception of
\* _process_contour
PolygonRaises(config, image) ==
    \E k \in 1..Len(image.contours) :
        _process_contour(config, image.contours[k], image.height * image.width).raised

\* PolygonDetector.detect, when it returns
PolygonDetect(config, image) ==
    PolygonsFrom(config, image.contours, image.height * image.width)

(***************************************************************************)
(* YOLODetector (Stage 1C)                                                 *)
(***************************************************************************)

\* YOLOConfig defaults: size ratios per cent of the image area, aspect tenths
YoloMinSizeRatio == 1
YoloMaxSizeRatio == 50
YoloAspectRatioMin == 3
YoloAspectRatioMax == 30

YOLOConfig(auto_download) ==
    [auto_download |-> auto_download,
     min_size_ratio |-> YoloMinSizeRatio, max_size_ratio |-> YoloMaxSizeRatio,
     aspect_ratio_min |-> YoloAspectRatioMin, aspect_ratio_max |-> YoloAspectRatioMax]

\* The machine the detector runs on: is ultralytics importable, does the
\* weights file exist, does YOLO(...) raise while loading.
YoloWorld(ultralytics, weights, load_raises) ==
    [ultralytics |-> ultralytics, weights |-> weights, load_raises |-> load_raises]

\* yolo_detector = None
NoDetector == [none |-> TRUE]

\* YOLODetector.__init__
YOLODetectorNew(config) ==
    [none |-> FALSE, config |-> config, _model |-> "None", _available |-> "None",
     loads |-> 0]

\* is_available: the import is tried once and its outcome cached
is_available(yolo, world) ==
    IF yolo._available # "None" THEN yolo
    ELSE [yolo EXCEPT !._available = IF world.ultralytics THEN "True" ELSE "False"]

\* mutant: the load succeeds whatever the machine holds
LoadModelAnyway(y, world) ==
    [yolo |-> [y EXCEPT !._model = "loaded", !.loads = @ + 1], ok |-> TRUE]

\* the try block of _ensure_model_loaded, ultralytics being importable.
\* loads counts the YOLO(...) constructions that succeeded.
LoadModel(y, world) ==
    IF ~world.weights /\ y.config.auto_download
    THEN IF world.load_raises THEN [yolo |-> y, ok |-> FALSE]
         ELSE [yolo |-> [y EXCEPT !._model = "loaded", !.loads = @ + 1], ok |-> TRUE]
    ELSE IF world.weights
    THEN IF world.load_raises THEN [yolo |-> y, ok |-> FALSE]
         ELSE [yolo |-> [y EXCEPT !._model = "loaded", !.loads = @ + 1], ok |-> TRUE]
    ELSE [yolo |-> y, ok |-> FALSE]

LoadIfAvailable(y, world) ==
    IF y._available = "False" THEN [yolo |-> y, ok |-> FALSE] ELSE LoadModel(y, world)

\* mutant: the model is loaded whether the detector holds one or not
ReloadModel(yolo, world) ==
    LoadIfAvailable(is_available(yolo, world), world)

\* _ensure_model_loaded: the detector afterwards, and the returned flag
_ensure_model_loaded(yolo, world) ==
    IF yolo._model # "None" THEN [yolo |-> yolo, ok |-> TRUE]
    ELSE LoadIfAvailable(is_available(yolo, world), world)

\* One box of the model's inference result: its size and confidence, and the
\* crop image[y1:y2, x1:x2] holds.
Box(x, y, w, h, conf, crop) ==
    [x |-> x, y |-> y, w |-> w, h |-> h, conf |-> conf, crop |-> crop]

YoloKeeps(config, box, image_area) ==
    /\ ~(100 * box.w * box.h < config.min_size_ratio * image_area)
    /\ ~(100 * box.w * box.h > config.max_size_ratio * image_area)
    /\ ~(IF box.h > 0 THEN 10 * box.w < config.aspect_ratio_min * box.h
                      ELSE 0 < config.aspect_ratio_min)
    /\ ~(IF box.h > 0 THEN 10 * box.w > config.aspect_ratio_max * box.h ELSE FALSE)

YOLODetection(box) ==
    [bounding_box |-> <<box.x, box.y, box.w, box.h>>,
     confidence |-> box.conf,
     cropped_image |-> box.crop]

RECURSIVE YoloFilter(_, _, _)
YoloFilter(config, boxes, image_area) ==
    IF boxes = <<>> THEN <<>>
    ELSE (IF YoloKeeps(config, Head(boxes), image_area)
          THEN <<YOLODetection(Head(boxes))>> ELSE <<>>)
         \o YoloFilter(config, Tail(boxes), image_area)

\* the inference and the filtering loop of detect
Infer(loaded, image) ==
    IF ~loaded.ok THEN [yolo |-> loaded.yolo, detections |-> <<>>]
    ELSE IF image.yolo_raises THEN [yolo |-> loaded.yolo, detections |-> <<>>]
    ELSE [yolo |-> loaded.yolo,
          detections |-> YoloFilter(loaded.yolo.config, image.boxes,
                                    image.height * image.width)]

\* YOLODetector.detect: never raises; [] when the model is not available or
\* the inference raises
YoloDetect(yolo, world, image) ==
    Infer(_ensure_model_loaded(yolo, world), image)

\* YOLODetector.detect_raw: the same lazy load, the boxes unfiltered
detect_raw(yolo, world, image) ==
    IF ~_ensure_model_loaded(yolo, world).ok \/ image.yolo_raises
    THEN [yolo |-> _ensure_model_loaded(yolo, world).yolo, detections |-> <<>>]
    ELSE [yolo |-> _ensure_model_loaded(yolo, world).yolo,
          detections |-> [k \in 1..Len(image.boxes) |-> YOLODetection(image.boxes[k])]]

(***************************************************************************)
(* DetectionPipeline                                                       *)
(***************************************************************************)

PipelineConfig(enable_yolo_fallback, auto_download) ==
    [polygon_config |-> DetectionConfig,
     classifier_config |-> DefaultClassifierConfig,
     yolo_config |-> YOLOConfig(auto_download),
     enable_yolo_fallback |-> enable_yolo_fallback]

\* DetectionPipeline.__init__: the YOLO detector is not built yet
DetectionPipelineNew(config) ==
    [config |-> config,
     classifier |-> StampClassifierNew(config.classifier_config),
     yolo_detector |-> NoDetector,
     yolo_built |-> 0]

\* _get_yolo_detector: the pipeline afterwards (yolo_built counts constructions)
_get_yolo_detector(pipeline) ==
    IF pipeline.yolo_detector.none /\ pipeline.config.enable_yolo_fallback
    THEN [pipeline EXCEPT !.yolo_detector = YOLODetectorNew(pipeline.config.yolo_config),
                          !.yolo_built = @ + 1]
    ELSE pipeline

\* vertices = None
NoVertices == [none |-> TRUE, points |-> <<>>]

\* detection_id = f"cv_{i+1:03d}" / f"yolo_{i+1:03d}": the prefix and the number
DetectionId(prefix, number) == [prefix |-> prefix, number |-> number]

DetectedStamp(id, shape, box, verts, crop, passed, conf, reason, details, source, dconf) ==
    [detection_id |-> id, shape_type |-> shape, bounding_box |-> box,
     vertices |-> verts, cropped_image |-> crop,
     classifier_passed |-> passed, classifier_confidence |-> conf,
     classifier_reason |-> reason, classifier_details |-> details,
     source |-> source, detection_confidence |-> dconf]

\* mutant: every geometric stamp is marked as passed
PolygonStampPassed(i, polygon, classification) ==
    DetectedStamp(DetectionId("cv", i), polygon.shape_type, polygon.bounding_box,
                  polygon.vertices, polygon.cropped_image, TRUE,
                  classification.confidence, classification.reason,
                  classification.details, "polygon_cv", polygon.confidence)

PolygonStamp(i, polygon, classification) ==
    DetectedStamp(DetectionId("cv", i), polygon.shape_type, polygon.bounding_box,
                  polygon.vertices, polygon.cropped_image, classification.is_stamp,
                  classification.confidence, classification.reason,
                  classification.details, "polygon_cv", polygon.confidence)

\* Stage 1B loop of detect_stamps over polygons[i..]: classify, build the
\* stamp, append to accepted or rejected.  A classify that raises ends the
\* loop (and the call): there is no handler around it.
RECURSIVE ClassifyPolygons(_, _, _, _, _)
Stage1BStep(classifier, polygons, i, accepted, rejected, classification) ==
    IF classification.raised
    THEN [raised |-> TRUE, accepted |-> accepted, rejected |-> rejected]
    ELSE IF classification.is_stamp
    THEN ClassifyPolygons(classifier, polygons, i + 1,
                          Append(accepted, PolygonStamp(i, polygons[i], classification)),
                          rejected)
    ELSE ClassifyPolygons(classifier, polygons, i + 1, accepted,
                          Append(rejected, PolygonStamp(i, polygons[i], classification)))

ClassifyPolygons(classifier, polygons, i, accepted, rejected) ==
    IF i > Len(polygons)
    THEN [raised |-> FALSE, accepted |-> accepted, rejected |-> rejected]
    ELSE Stage1BStep(classifier, polygons, i, accepted, rejected,
                     classify(classifier, polygons[i].cropped_image))

\* mutant: the fallback stamps are numbered as they are kept
YoloNumberKept(i, stamps) == Len(stamps) + 1

\* the number in a fallback stamp's id: the detection's position in the
\* detector's list
YoloNumber(i, stamps) == i

YoloStamp(i, det, classification, stamps) ==
    DetectedStamp(DetectionId("yolo", YoloNumber(i, stamps)), "quadrilateral",
                  det.bounding_box, NoVertices, det.cropped_image, TRUE,
                  classification.confidence, "yolo_fallback", classification.details,
                  "yolo_fallback", det.confidence)

\* the classification of one fallback detection
ClassifyDetection(classifier, det) ==
    IF ~det.cropped_image.none
    THEN classify(classifier, det.cropped_image)
    ELSE StampClassification(TRUE, det.confidence * (ConfOne \div 100),
                             "yolo_detection", [yolo_confidence |-> det.confidence])

\* The loop of _run_yolo_fallback over detections[i..]: rejected detections
\* are dropped.
RECURSIVE ClassifyDetections(_, _, _, _)
\* mutant: the detections the classifier rejects are kept too
FallbackStepKeepsAll(classifier, detections, i, stamps, classification) ==
    IF classification.raised THEN [raised |-> TRUE, stamps |-> stamps]
    ELSE ClassifyDetections(classifier, detections, i + 1,
                            Append(stamps, YoloStamp(i, detections[i], classification,
                                                     stamps)))

FallbackStep(classifier, detections, i, stamps, classification) ==
    IF classification.raised THEN [raised |-> TRUE, stamps |-> stamps]
    ELSE IF classification.is_stamp
    THEN ClassifyDetections(classifier, detections, i + 1,
                            Append(stamps, YoloStamp(i, detections[i], classification,
                                                     stamps)))
    ELSE ClassifyDetections(classifier, detections, i + 1, stamps)

ClassifyDetections(classifier, detections, i, stamps) ==
    IF i > Len(detections) THEN [raised |-> FALSE, stamps |-> stamps]
    ELSE FallbackStep(classifier, detections, i, stamps,
                      ClassifyDetection(classifier, detections[i]))

FallbackResult(p1, yolo, done) ==
    [pipeline |-> [p1 EXCEPT !.yolo_detector = yolo],
     raised |-> done.raised, stamps |-> done.stamps]

FallbackClassify(p1, found) ==
    FallbackResult(p1, found.yolo,
                   ClassifyDetections(p1.classifier, found.detections, 1, <<>>))

FallbackDetect(p1, y1, world, image) ==
    IF y1._available = "False"
    THEN [pipeline |-> [p1 EXCEPT !.yolo_detector = y1],
          raised |-> FALSE, stamps |-> <<>>]
    ELSE FallbackClassify(p1, YoloDetect(y1, world, image))

FallbackWith(p1, world, image) ==
    IF p1.yolo_detector.none
    THEN [pipeline |-> p1, raised |-> FALSE, stamps |-> <<>>]
    ELSE FallbackDetect(p1, is_available(p1.yolo_detector, world), world, image)

\* _run_yolo_fallback: the pipeline afterwards and the stamps it returns
_run_yolo_fallback(pipeline, world, image) ==
    FallbackWith(_get_yolo_detector(pipeline), world, image)

\* mutant: the per-call flag is ignored
RunsFallbackAlways(pipeline, accepted, use_yolo_fallback) ==
    Len(accepted) = 0 /\ pipeline.config.enable_yolo_fallback

\* Stage 1C condition of detect_stamps
RunsFallback(pipeline, accepted, use_yolo_fallback) ==
    Len(accepted) = 0 /\ use_yolo_fallback /\ pipeline.config.enable_yolo_fallback

\* the return of detect_stamps after the fallback ran
Stage1CResult(polygons, stage1b, fb) ==
    [pipeline |-> fb.pipeline, raised |-> fb.raised, polygons |-> polygons,
     accepted |-> IF fb.raised THEN <<>> ELSE stage1b.accepted \o fb.stamps,
     rejected |-> IF fb.raised THEN <<>> ELSE stage1b.rejected,
     fallback_ran |-> TRUE,
     stage1b_accepted |-> Len(stage1b.accepted)]

Stage1C(pipeline, world, image, use_yolo_fallback, polygons, stage1b) ==
    IF stage1b.raised
    THEN [pipeline |-> pipeline, raised |-> TRUE, polygons |-> polygons,
          accepted |-> <<>>, rejected |-> <<>>, fallback_ran |-> FALSE,
          stage1b_accepted |-> Len(stage1b.accepted)]
    ELSE IF RunsFallback(pipeline, stage1b.accepted, use_yolo_fallback)
    THEN Stage1CResult(polygons, stage1b, _run_yolo_fallback(pipeline, world, image))
    ELSE [pipeline |-> pipeline, raised |-> FALSE, polygons |-> polygons,
          accepted |-> stage1b.accepted, rejected |-> stage1b.rejected,
          fallback_ran |-> FALSE,
          stage1b_accepted |-> Len(stage1b.accepted)]

Stage1B(pipeline, world, image, use_yolo_fallback, polygons) ==
    Stage1C(pipeline, world, image, use_yolo_fallback, polygons,
            ClassifyPolygons(pipeline.classifier, polygons, 1, <<>>, <<>>))

\* detect_stamps: the pipeline afterwards, whether the call raised, the two
\* returned lists, and whether _run_yolo_fallback was called
detect_stamps(pipeline, world, image, use_yolo_fallback) ==
    IF PolygonRaises(pipeline.config.polygon_config, image)
    THEN [pipeline |-> pipeline, raised |-> TRUE, polygons |-> <<>>,
          accepted |-> <<>>, rejected |-> <<>>, fallback_ran |-> FALSE,
          stage1b_accepted |-> 0]
    ELSE Stage1B(pipeline, world, image, use_yolo_fallback,
                 PolygonDetect(pipeline.config.polygon_config, image))

(***************************************************************************)
(* RAGSearcher, EmbeddingGenerator, SupabaseRAG                            *)
(***************************************************************************)

\* Settings defaults, per cent
RagMatchAutoThreshold == 90
RagMatchMinThreshold == 50

\* get_settings(): the two thresholds, and whether OPENAI_API_KEY and
\* SUPABASE_URL/SUPABASE_KEY are configured
Settings(auto, min, openai_key, supabase_config) ==
    [RAG_MATCH_AUTO_THRESHOLD |-> auto, RAG_MATCH_MIN_THRESHOLD |-> min,
     openai_key |-> openai_key, supabase_config |-> supabase_config]

\* RAGSearcher.__init__; embedder and supabase are "None" or "given".
\* embedders_built / stores_built count the lazy constructions.
RAGSearcherNew(embedder, supabase) ==
    [embedder |-> embedder, supabase |-> supabase, _initialized |-> FALSE,
     embedders_built |-> 0, stores_built |-> 0]

\* the second half of _ensure_initialized: SupabaseRAG() raises SupabaseError
\* when the URL or the key is not configured
EnsureSupabase(s1, settings) ==
    IF s1.supabase # "None"
    THEN [searcher |-> [s1 EXCEPT !._initialized = TRUE], error |-> "none"]
    ELSE IF ~settings.supabase_config
    THEN [searcher |-> s1, error |-> "SupabaseError"]
    ELSE [searcher |-> [s1 EXCEPT !.supabase = "built", !.stores_built = @ + 1,
                                  !._initialized = TRUE],
          error |-> "none"]

\* _ensure_initialized: EmbeddingGenerator() raises EmbeddingError without an
\* API key
_ensure_initialized(searcher, settings) ==
    IF searcher._initialized THEN [searcher |-> searcher, error |-> "none"]
    ELSE IF searcher.embedder # "None" THEN EnsureSupabase(searcher, settings)
    ELSE IF ~settings.openai_key
    THEN [searcher |-> searcher, error |-> "EmbeddingError"]
    ELSE EnsureSupabase([searcher EXCEPT !.embedder = "built",
                                         !.embedders_built = @ + 1], settings)

\* A row of stamps_rag as one query sees it: its colnect_id, whether it has an
\* embedding, and the cosine similarity (per cent) of that embedding to the
\* query's.
Row(colnect_id, embedded, similarity) ==
    [colnect_id |-> colnect_id, embedded |-> embedded, similarity |-> similarity]

\* The embedding provider and the database: does the provider answer, does
\* the match_stamps RPC exist ("ok"), is it missing, or does the call fail;
\* does a plain table query work; the rows of the table.
Env(provider, rpc, table_query, rows) ==
    [provider |-> provider, rpc |-> rpc, table_query |-> table_query, rows |-> rows]

\* EmbeddingGenerator.embed: TRUE when it raises EmbeddingError
EmbedRaises(env, text) == text = "" \/ env.provider = "raises"

\* ORDER BY embedding <=> query_embedding: nearest first, rows without an
\* embedding (NULL distance) last; rows at equal distance in table order
Closer(a, b) == a.embedded /\ (~b.embedded \/ a.similarity > b.similarity)

RECURSIVE InsertRow(_, _)
InsertRow(row, sorted) ==
    IF sorted = <<>> THEN <<row>>
    ELSE IF Closer(row, Head(sorted)) THEN <<row>> \o sorted
    ELSE <<Head(sorted)>> \o InsertRow(row, Tail(sorted))

RECURSIVE OrderByDistance(_)
OrderByDistance(rows) ==
    IF rows = <<>> THEN <<>>
    ELSE InsertRow(rows[Len(rows)], OrderByDistance(SubSeq(rows, 1, Len(rows) - 1)))

Limit(rows, n) == SubSeq(rows, 1, Min(Max(n, 0), Len(rows)))

\* the match_stamps function: ORDER BY distance LIMIT match_count
MatchStamps(rows, match_count) == Limit(OrderByDistance(rows), match_count)

Entry(row) == [colnect_id |-> row.colnect_id, embedded |-> row.embedded]

\* the pairs (entry, similarity) kept from rows with similarity >= min_similarity
RECURSIVE KeepSimilar(_, _)
KeepSimilar(rows, min_similarity) ==
    IF rows = <<>> THEN <<>>
    ELSE (IF Head(rows).similarity >= min_similarity
          THEN <<[entry |-> Entry(Head(rows)), similarity |-> Head(rows).similarity]>>
          ELSE <<>>)
         \o KeepSimilar(Tail(rows), min_similarity)

\* Python's list.sort(key=similarity, reverse=True): stable
RECURSIVE InsertPair(_, _)
InsertPair(pair, sorted) ==
    IF sorted = <<>> THEN <<pair>>
    ELSE IF pair.similarity > Head(sorted).similarity THEN <<pair>> \o sorted
    ELSE <<Head(sorted)>> \o InsertPair(pair, Tail(sorted))

RECURSIVE SortPairs(_)
SortPairs(pairs) ==
    IF pairs = <<>> THEN <<>>
    ELSE InsertPair(pairs[Len(pairs)], SortPairs(SubSeq(pairs, 1, Len(pairs) - 1)))

\* _fallback_search: client-side similarity over the rows that have an embedding
_fallback_search(env, limit, min_similarity) ==
    IF env.table_query = "raises" THEN [raised |-> TRUE, entries |-> <<>>]
    ELSE [raised |-> FALSE,
          entries |-> Limit(SortPairs(KeepSimilar(
                                SelectSeq(env.rows, LAMBDA r : r.embedded),
                                min_similarity)), limit)]

\* the loop of SupabaseRAG.search over the RPC's rows: a row without an
\* embedding has similarity NULL, and None >= min_similarity raises TypeError
RpcEntries(data, min_similarity) ==
    IF \E k \in 1..Len(data) : ~data[k].embedded
    THEN [raised |-> TRUE, entries |-> <<>>]
    ELSE [raised |-> FALSE, entries |-> KeepSimilar(data, min_similarity)]

\* SupabaseRAG.search: raised = it raises SupabaseError
SupabaseSearch(env, limit, min_similarity) ==
    IF env.rpc = "ok" THEN RpcEntries(MatchStamps(env.rows, limit), min_similarity)
    ELSE IF env.rpc = "missing" THEN _fallback_search(env, limit, min_similarity)
    ELSE [raised |-> TRUE, entries |-> <<>>]

SearchResult(entry, similarity, rank) ==
    [none |-> FALSE, entry |-> entry, similarity |-> similarity, rank |-> rank]

\* auto_match = None
NoSearchResult ==
    [none |-> TRUE, entry |-> [colnect_id |-> 0, embedded |-> FALSE],
     similarity |-> 0, rank |-> 0]

\* mutant: the ranks are the 0-based positions
SearchResultsFromZero(entries) ==
    [idx \in 1..Len(entries) |->
        SearchResult(entries[idx].entry, entries[idx].similarity, idx - 1)]

\* the list comprehension of search: rank = idx + 1 over enumerate(results)
SearchResults(entries) ==
    [idx \in 1..Len(entries) |->
        SearchResult(entries[idx].entry, entries[idx].similarity, idx)]

\* what a searcher call produced: the searcher afterwards, the error raised
\* ("none": it returned), the value returned, and which collaborator failed
Outcome(searcher, error, value, failed) ==
    [searcher |-> searcher, error |-> error, value |-> value, failed |-> failed]

\* mutant: a failure of the store is taken for an empty answer
SearchTrySilent(searcher, found) ==
    Outcome(searcher, "none", SearchResults(found.entries), "none")

\* the try block of search, the store's answer at hand
SearchTry(searcher, found) ==
    IF found.raised THEN Outcome(searcher, "SearchError", <<>>, "vector_store")
    ELSE Outcome(searcher, "none", SearchResults(found.entries), "none")

SearchWith(init, env, query, top_k, threshold) ==
    IF init.error # "none"
    THEN Outcome(init.searcher, init.error, <<>>,
                 IF init.error = "EmbeddingError" THEN "embedder" ELSE "vector_store")
    ELSE IF EmbedRaises(env, query)
    THEN Outcome(init.searcher, "SearchError", <<>>, "embedder")
    ELSE SearchTry(init.searcher, SupabaseSearch(env, top_k, threshold))

\* RAGSearcher.search
search(searcher, settings, env, query, top_k, min_threshold) ==
    SearchWith(_ensure_initialized(searcher, settings), env, query, top_k,
               min_threshold)

IdentificationResult(description, top_matches, confidence, auto_match) ==
    [none |-> FALSE, query_description |-> description, top_matches |-> top_matches,
     confidence |-> confidence, auto_match |-> auto_match]

NoIdentificationResult ==
    [none |-> TRUE, query_description |-> "", top_matches |-> <<>>,
     confidence |-> "no_match", auto_match |-> NoSearchResult]

\* mutant: the auto_accept tier is returned without its auto match
TierAutoUnset(settings, description, top_k, all_matches) ==
    IF all_matches = <<>>
    THEN IdentificationResult(description, <<>>, "no_match", NoSearchResult)
    ELSE IF all_matches[1].similarity >= settings.RAG_MATCH_AUTO_THRESHOLD
    THEN IdentificationResult(description, Limit(all_matches, top_k), "auto_accept",
                              NoSearchResult)
    ELSE IdentificationResult(description, Limit(all_matches, top_k), "review",
                              NoSearchResult)

\* mutant: the auto threshold is exclusive
TierExclusive(settings, description, top_k, all_matches) ==
    IF all_matches = <<>>
    THEN IdentificationResult(description, <<>>, "no_match", NoSearchResult)
    ELSE IF all_matches[1].similarity > settings.RAG_MATCH_AUTO_THRESHOLD
    THEN IdentificationResult(description, Limit(all_matches, top_k), "auto_accept",
                              all_matches[1])
    ELSE IdentificationResult(description, Limit(all_matches, top_k), "review",
                              NoSearchResult)

\* mutant: the whole list is returned, not its first top_k
TierUnsliced(settings, description, top_k, all_matches) ==
    IF all_matches = <<>>
    THEN IdentificationResult(description, <<>>, "no_match", NoSearchResult)
    ELSE IF all_matches[1].similarity >= settings.RAG_MATCH_AUTO_THRESHOLD
    THEN IdentificationResult(description, all_matches, "auto_accept", all_matches[1])
    ELSE IdentificationResult(description, all_matches, "review", NoSearchResult)

\* the tiering of identify over the list search returned
Tier(settings, description, top_k, all_matches) ==
    IF all_matches = <<>>
    THEN IdentificationResult(description, <<>>, "no_match", NoSearchResult)
    ELSE IF all_matches[1].similarity >= settings.RAG_MATCH_AUTO_THRESHOLD
    THEN IdentificationResult(description, Limit(all_matches, top_k), "auto_accept",
                              all_matches[1])
    ELSE IdentificationResult(description, Limit(all_matches, top_k), "review",
                              NoSearchResult)

IdentifyFrom(settings, description, top_k, searched) ==
    IF searched.error # "none"
    THEN Outcome(searched.searcher, searched.error, NoIdentificationResult,
                 searched.failed)
    ELSE Outcome(searched.searcher, "none",
                 Tier(settings, description, top_k, searched.value), "none")

IdentifyWith(init, settings, env, description, top_k) ==
    IF init.error # "none"
    THEN Outcome(init.searcher, init.error, NoIdentificationResult,
                 IF init.error = "EmbeddingError" THEN "embedder" ELSE "vector_store")
    ELSE IdentifyFrom(settings, description, top_k,
                      search(init.searcher, settings, env, description, top_k * 2,
                             settings.RAG_MATCH_MIN_THRESHOLD))

\* RAGSearcher.identify
identify(searcher, settings, env, description, top_k) ==
    IdentifyWith(_ensure_initialized(searcher, settings), settings, env,
                 description, top_k)

\* SupabaseRAG.get_by_colnect_id: the first row with that id; None when there
\* is none and when the query raises (every exception is caught and logged)
NoRow == [none |-> TRUE, colnect_id |-> 0, embedded |-> FALSE, similarity |-> 0]

FirstRow(rows) ==
    IF rows = <<>> THEN NoRow
    ELSE [none |-> FALSE, colnect_id |-> rows[1].colnect_id,
          embedded |-> rows[1].embedded, similarity |-> rows[1].similarity]

get_by_colnect_id(env, colnect_id) ==
    IF env.table_query = "raises" THEN NoRow
    ELSE FirstRow(SelectSeq(env.rows, LAMBDA r : r.colnect_id = colnect_id))

\* mutant: the rank is the position in the store's list
SimilarRankByIndex(idx, search_results) == idx

\* rank = len(search_results) + 1
SimilarRank(idx, search_results) == Len(search_results) + 1

\* the loop of find_similar over results[idx..]
RECURSIVE SimilarLoop(_, _, _, _, _, _)
SimilarLoop(results, idx, colnect_id, top_k, exclude_self, search_results) ==
    IF idx > Len(results) THEN search_results
    ELSE IF exclude_self /\ results[idx].entry.colnect_id = colnect_id
    THEN SimilarLoop(results, idx + 1, colnect_id, top_k, exclude_self, search_results)
    ELSE IF Len(search_results) + 1 >= top_k
    THEN Append(search_results,
                SearchResult(results[idx].entry, results[idx].similarity,
                             SimilarRank(idx, search_results)))
    ELSE SimilarLoop(results, idx + 1, colnect_id, top_k, exclude_self,
                     Append(search_results,
                            SearchResult(results[idx].entry, results[idx].similarity,
                                         SimilarRank(idx, search_results))))

\* the search of find_similar is outside any try: SupabaseError propagates
SimilarFrom(searcher, found, colnect_id, top_k, exclude_self) ==
    IF found.raised THEN Outcome(searcher, "SupabaseError", <<>>, "vector_store")
    ELSE Outcome(searcher, "none",
                 SimilarLoop(found.entries, 1, colnect_id, top_k, exclude_self, <<>>),
                 "none")

SimilarOf(searcher, env, entry, colnect_id, top_k, exclude_self) ==
    IF entry.none THEN Outcome(searcher, "SearchError", <<>>, "not_found")
    ELSE IF ~entry.embedded THEN Outcome(searcher, "SearchError", <<>>, "no_embedding")
    ELSE SimilarFrom(searcher,
                     SupabaseSearch(env, top_k + (IF exclude_self THEN 1 ELSE 0), 0),
                     colnect_id, top_k, exclude_self)

SimilarWith(init, env, colnect_id, top_k, exclude_self) ==
    IF init.error # "none"
    THEN Outcome(init.searcher, init.error, <<>>,
                 IF init.error = "EmbeddingError" THEN "embedder" ELSE "vector_store")
    ELSE SimilarOf(init.searcher, env, get_by_colnect_id(env, colnect_id),
                   colnect_id, top_k, exclude_self)

\* RAGSearcher.find_similar; env.rows carry the similarity to the embedding of
\* the reference stamp
find_similar(searcher, settings, env, colnect_id, top_k, exclude_self) ==
    SimilarWith(_ensure_initialized(searcher, settings), env, colnect_id, top_k,
                exclude_self)

(***************************************************************************)
(* StampIdentifier, DetectionFeedback, SessionManager                      *)
(***************************************************************************)

\* the top_k of the identify_async call in _identify_stamp
IdentifyTopK == 3

\* _create_feedback_from_stamp
_create_feedback_from_stamp(stamp, searched) ==
    [detection_id |-> stamp.detection_id, shape_type |-> stamp.shape_type,
     stage_1b_passed |-> stamp.classifier_passed,
     stage_1b_confidence |-> stamp.classifier_confidence,
     stage_1b_reason |-> stamp.classifier_reason,
     stage_2_searched |-> searched,
     rag_match_found |-> FALSE, rag_top_match |-> 0,
     cropped_image |-> stamp.cropped_image]

\* DetectionFeedback.status
status(feedback) ==
    IF ~feedback.stage_1b_passed THEN "rejected"
    ELSE IF ~feedback.stage_2_searched THEN "pending"
    ELSE IF feedback.rag_match_found THEN "identified"
    ELSE "no_match"

StampIdentification(stamp, description, rag_result) ==
    [none |-> FALSE, stamp |-> stamp.detection_id, description |-> description,
     rag_result |-> rag_result]

NoStampIdentification ==
    [none |-> TRUE, stamp |-> DetectionId("", 0), description |-> "",
     rag_result |-> NoIdentificationResult]

\* what _identify_stamp returns, the searcher afterwards, and what failed:
\* "none", "crop", "describer", "embedder", "vector_store", or "score" (the
\* read of SearchResult.score, an attribute the class does not have)
Identified(searcher, feedback, identification, failed) ==
    [searcher |-> searcher, feedback |-> feedback,
     identification |-> identification, failed |-> failed]

\* the except branch of _identify_stamp: only stage_1b_reason is changed
ErrorFeedback(searcher, feedback, failed) ==
    Identified(searcher, [feedback EXCEPT !.stage_1b_reason = "identification_error"],
               NoStampIdentification, failed)

\* _identify_stamp after identify_async: has_match is stored, then the top
\* match's colnect_id, then the read of .score raises AttributeError
AfterIdentify(feedback, stamp, description, outcome) ==
    IF outcome.error # "none"
    THEN ErrorFeedback(outcome.searcher, feedback, outcome.failed)
    ELSE IF outcome.value.top_matches # <<>>
    THEN ErrorFeedback(outcome.searcher,
                       [feedback EXCEPT
                            !.rag_match_found = TRUE,
                            !.rag_top_match =
                                outcome.value.top_matches[1].entry.colnect_id],
                       "score")
    ELSE Identified(outcome.searcher, [feedback EXCEPT !.rag_match_found = FALSE],
                    StampIdentification(stamp, description, outcome.value), "none")

\* One stamp's surroundings: does the describer raise, the description it
\* returns, and the provider and table the searcher meets for it.
Case(describer, description, env) ==
    [describer |-> describer, description |-> description, env |-> env]

DescribeAndSearch(searcher, settings, stamp, case, feedback) ==
    IF stamp.cropped_image.none \/ ~stamp.cropped_image.ok
    THEN ErrorFeedback(searcher, feedback, "crop")
    ELSE IF case.describer = "raises"
    THEN ErrorFeedback(searcher, feedback, "describer")
    ELSE AfterIdentify(feedback, stamp, case.description,
                       identify(searcher, settings, case.env, case.description,
                                IdentifyTopK))

\* StampIdentifier._identify_stamp
_identify_stamp(searcher, settings, stamp, case) ==
    DescribeAndSearch(searcher, settings, stamp, case,
                      _create_feedback_from_stamp(stamp, TRUE))

\* mutant: the rejected stamps get no feedback entry
RejectedFeedbackSkipped(rejected) == <<>>

\* Step 3 of identify_image: the feedback of the rejected stamps
RejectedFeedback(rejected) ==
    [k \in 1..Len(rejected) |-> _create_feedback_from_stamp(rejected[k], FALSE)]

\* save_session's writes to missed_stamps/: <session_id>_<i+1>.png for every
\* detection that has a crop and status "no_match"
RECURSIVE MissedFrom(_, _)
MissedFrom(detections, i) ==
    IF i > Len(detections) THEN <<>>
    ELSE (IF ~detections[i].cropped_image.none /\ status(detections[i]) = "no_match"
          THEN <<[index |-> i, crop |-> detections[i].cropped_image]>>
          ELSE <<>>)
         \o MissedFrom(detections, i + 1)

save_session(manager, missed, detections) ==
    IF manager.save_crops THEN missed \o MissedFrom(detections, 1) ELSE missed

(***************************************************************************)
(* Inputs                                                                  *)
(***************************************************************************)

MaxContours == 2
MaxBoxes == 2
MaxCalls == 2
MaxRows == 3
MaxTopK == 2
\* threads that use one object at the same time
MaxThreads == 2
Threads == 1..MaxThreads

SeqsUpTo(S, n) == UNION {[1..k -> S] : k \in 0..n}

\* a colourful, detailed crop of ideal size; a paler padded triangle crop; a
\* blank crop; an image cv2 cannot convert
GoodCrop == Crop(TRUE, 9000, 200, 150, 180, 1200)
TriangleCrop == Crop(TRUE, 6000, 120, 160, 190, 600)
BlankCrop == Crop(TRUE, 0, 0, 100, 100, 0)
EmptyCrop == Crop(FALSE, 0, 0, 0, 0, 0)

ContourKinds ==
    { Contour(27000, <<<<100, 100>>, <<250, 100>>, <<250, 280>>, <<100, 280>>>>, TRUE,
              <<100, 100, 150, 180>>, GoodCrop),
      Contour(13000, <<<<400, 100>>, <<550, 280>>, <<400, 280>>>>, TRUE,
              <<400, 100, 150, 180>>, TriangleCrop),
      Contour(10000, <<<<600, 600>>, <<700, 600>>, <<700, 700>>, <<600, 700>>>>, TRUE,
              <<600, 600, 100, 100>>, BlankCrop),
      Contour(12000, <<<<10, 600>>, <<130, 600>>, <<130, 700>>, <<10, 700>>>>, TRUE,
              <<10, 600, 120, 100>>, EmptyCrop),
      Contour(500, <<<<800, 800>>, <<825, 800>>, <<825, 820>>, <<800, 820>>>>, TRUE,
              <<800, 800, 25, 20>>, BlankCrop) }

BoxKinds ==
    { Box(100, 100, 150, 180, 80, GoodCrop),
      Box(600, 600, 100, 100, 60, BlankCrop),
      Box(800, 800, 20, 20, 90, BlankCrop) }

Images ==
    { [height |-> 1000, width |-> 1000, contours |-> cs, boxes |-> bs,
       yolo_raises |-> r] :
        cs \in SeqsUpTo(ContourKinds, MaxContours),
        bs \in SeqsUpTo(BoxKinds, MaxBoxes),
        r \in BOOLEAN } \ 
    { [height |-> 1000, width |-> 1000, contours |-> cs, boxes |-> bs,
       yolo_raises |-> TRUE] :
        cs \in SeqsUpTo(ContourKinds, MaxContours),
        bs \in SeqsUpTo(BoxKinds, MaxBoxes) \ {<<>>} }

\* the YOLO set-ups: auto_download of the YOLOConfig and the machine's state
Machines ==
    { [auto_download |-> TRUE, world |-> YoloWorld(FALSE, TRUE, FALSE)],
      [auto_download |-> FALSE, world |-> YoloWorld(TRUE, FALSE, FALSE)],
      [auto_download |-> TRUE, world |-> YoloWorld(TRUE, FALSE, FALSE)],
      [auto_download |-> TRUE, world |-> YoloWorld(TRUE, TRUE, TRUE)],
      [auto_download |-> FALSE, world |-> YoloWorld(TRUE, TRUE, FALSE)] }

\* rows of stamps_rag: similarities (per cent) around the two thresholds, and
\* a row whose embedding is NULL
RowKinds(colnect_id) ==
    { Row(colnect_id, TRUE, sim) : sim \in {30, 50, 70, 90, 95, 100} }
    \cup { Row(colnect_id, FALSE, 0) }

\* tables of up to MaxRows rows, the row at position k having colnect_id k
Tables ==
    UNION { { t \in [1..n -> UNION {RowKinds(k) : k \in 1..n}] :
                \A k \in 1..n : t[k].colnect_id = k } : n \in 0..MaxRows }

\* how the searcher was built, what is configured, and how the provider and
\* the database behave
SearchWorlds ==
    { [embedder |-> "given", supabase |-> "given",
       settings |-> Settings(RagMatchAutoThreshold, RagMatchMinThreshold, TRUE, TRUE),
       provider |-> "ok", rpc |-> "ok", table_query |-> "ok"],
      [embedder |-> "given", supabase |-> "given",
       settings |-> Settings(70, 30, TRUE, TRUE),
       provider |-> "ok", rpc |-> "ok", table_query |-> "ok"],
      [embedder |-> "None", supabase |-> "None",
       settings |-> Settings(RagMatchAutoThreshold, RagMatchMinThreshold, TRUE, TRUE),
       provider |-> "ok", rpc |-> "ok", table_query |-> "ok"],
      [embedder |-> "None", supabase |-> "given",
       settings |-> Settings(RagMatchAutoThreshold, RagMatchMinThreshold, FALSE, TRUE),
       provider |-> "ok", rpc |-> "ok", table_query |-> "ok"],
      [embedder |-> "None", supabase |-> "None",
       settings |-> Settings(RagMatchAutoThreshold, RagMatchMinThreshold, TRUE, FALSE),
       provider |-> "ok", rpc |-> "ok", table_query |-> "ok"],
      [embedder |-> "given", supabase |-> "given",
       settings |-> Settings(RagMatchAutoThreshold, RagMatchMinThreshold, TRUE, TRUE),
       provider |-> "raises", rpc |-> "ok", table_query |-> "ok"],
      [embedder |-> "given", supabase |-> "given",
       settings |-> Settings(RagMatchAutoThreshold, RagMatchMinThreshold, TRUE, TRUE),
       provider |-> "ok", rpc |-> "raises", table_query |-> "ok"],
      [embedder |-> "given", supabase |-> "given",
       settings |-> Settings(RagMatchAutoThreshold, RagMatchMinThreshold, TRUE, TRUE),
       provider |-> "ok", rpc |-> "missing", table_query |-> "ok"],
      [embedder |-> "given", supabase |-> "given",
       settings |-> Settings(RagMatchAutoThreshold, RagMatchMinThreshold, TRUE, TRUE),
       provider |-> "ok", rpc |-> "missing", table_query |-> "raises"] }

Descriptions == {"", "a stamp"}

NoQuery == [description |-> "", top_k |-> 0]

NoOutcome ==
    Outcome(RAGSearcherNew("None", "None"), "none", NoIdentificationResult, "none")

\* the images the identifier is run on
IdentifyContourKinds ==
    { Contour(27000, <<<<100, 100>>, <<250, 100>>, <<250, 280>>, <<100, 280>>>>, TRUE,
              <<100, 100, 150, 180>>, GoodCrop),
      Contour(10000, <<<<600, 600>>, <<700, 600>>, <<700, 700>>, <<600, 700>>>>, TRUE,
              <<600, 600, 100, 100>>, BlankCrop),
      Contour(12000, <<<<10, 600>>, <<130, 600>>, <<130, 700>>, <<10, 700>>>>, TRUE,
              <<10, 600, 120, 100>>, EmptyCrop) }

IdentifyBoxKinds ==
    { Box(100, 100, 150, 180, 80, GoodCrop),
      Box(600, 600, 100, 100, 60, BlankCrop) }

IdentifyImages ==
    { [height |-> 1000, width |-> 1000, contours |-> cs, boxes |-> bs,
       yolo_raises |-> FALSE] :
        cs \in SeqsUpTo(IdentifyContourKinds, MaxContours),
        bs \in SeqsUpTo(IdentifyBoxKinds, MaxBoxes) }

\* the describer raises; it returns an empty description (embed rejects it);
\* the provider fails; the RPC fails; the table has no row; it has a match
Cases ==
    { Case("raises", "", Env("ok", "ok", "ok", <<>>)),
      Case("ok", "", Env("ok", "ok", "ok", <<Row(1, TRUE, 95)>>)),
      Case("ok", "a stamp", Env("raises", "ok", "ok", <<Row(1, TRUE, 95)>>)),
      Case("ok", "a stamp", Env("ok", "raises", "ok", <<Row(1, TRUE, 95)>>)),
      Case("ok", "a stamp", Env("ok", "ok", "ok", <<>>)),
      Case("ok", "a stamp", Env("ok", "ok", "ok", <<Row(1, TRUE, 95)>>)) }

\* the identifier's machine: is YOLO usable, is OPENAI_API_KEY configured
IdentifyWorlds ==
    { [world |-> YoloWorld(TRUE, TRUE, FALSE), openai_key |-> TRUE],
      [world |-> YoloWorld(FALSE, TRUE, FALSE), openai_key |-> TRUE],
      [world |-> YoloWorld(TRUE, TRUE, FALSE), openai_key |-> FALSE] }

SessionManager == [save_crops |-> TRUE]

NoImage == [height |-> 0, width |-> 0, contours |-> <<>>, boxes |-> <<>>,
            yolo_raises |-> FALSE]

NoResult ==
    [raised |-> FALSE, polygons |-> <<>>, accepted |-> <<>>, rejected |-> <<>>,
     fallback_ran |-> FALSE, stage1b_accepted |-> 0]

(***************************************************************************)
(* Spec: a DetectionPipeline and its detect_stamps calls                   *)
(***************************************************************************)

\* the variables of a component that a specification does not exercise
ClassifyIdle ==
    /\ cl_clf = StampClassifierNew(DefaultClassifierConfig)
    /\ cl_crop = NoneCrop
    /\ cl_verdict = Raised
    /\ cl_pc = "off"

SearchIdle ==
    /\ sr_searcher = RAGSearcherNew("None", "None")
    /\ sr_settings = Settings(RagMatchAutoThreshold, RagMatchMinThreshold, TRUE, TRUE)
    /\ sr_env = Env("ok", "ok", "ok", <<>>)
    /\ sr_pc = "off"
    /\ sr_query = NoQuery
    /\ sr_outcome = NoOutcome

IdentifyIdle ==
    /\ id_pc = "off"
    /\ id_accepted = <<>>
    /\ id_idx = 0
    /\ id_session = <<>>
    /\ id_identifications = <<>>
    /\ id_missed = <<>>
    /\ id_attempts = <<>>

DetectIdle ==
    /\ dp_pipeline = DetectionPipelineNew(PipelineConfig(TRUE, TRUE))
    /\ dp_world = YoloWorld(TRUE, TRUE, FALSE)
    /\ dp_pc = "off"
    /\ dp_image = NoImage
    /\ dp_flag = TRUE
    /\ dp_result = NoResult
    /\ dp_calls = 0

\* the pipeline and the threads SpecThreads starts from; no thread runs in
\* the other specifications
ThreadsIdle ==
    /\ th_pipeline = [config |-> PipelineConfig(TRUE, TRUE), yolo_detector |-> 0]
    /\ th_heap = <<>>
    /\ th_world = YoloWorld(TRUE, TRUE, FALSE)
    /\ th_pc = [t \in Threads |-> "off"]
    /\ th_yolo = [t \in Threads |-> 0]

\* what an identify call of SpecAsync has produced before it ends
NoAsyncResult == [error |-> "none", value |-> NoIdentificationResult, failed |-> "none"]

\* the searcher SpecAsync starts from; no call runs in the other specifications
AsyncIdle ==
    /\ as_world = [embedder |-> "None", supabase |-> "None",
                   settings |-> Settings(RagMatchAutoThreshold, RagMatchMinThreshold,
                                         TRUE, TRUE),
                   provider |-> "ok", rpc |-> "ok", table_query |-> "ok", rows |-> <<>>]
    /\ as_searcher = RAGSearcherNew("None", "None")
    /\ as_pc = [t \in Threads |-> "off"]
    /\ as_query = [t \in Threads |-> NoQuery]
    /\ as_result = [t \in Threads |-> NoAsyncResult]

\* no identify call was made before the current one
NoPrev ==
    [none |-> TRUE, query |-> NoQuery, error |-> "none",
     value |-> NoIdentificationResult, env |-> Env("ok", "ok", "ok", <<>>)]

RepeatIdle ==
    /\ rp_calls = 0
    /\ rp_prev = NoPrev

NoSimilarQuery == [colnect_id |-> 0, top_k |-> 0, exclude_self |-> TRUE]

NoSimilarOutcome == Outcome(RAGSearcherNew("None", "None"), "none", <<>>, "none")

SimilarIdle ==
    /\ fs_pc = "off"
    /\ fs_query = NoSimilarQuery
    /\ fs_outcome = NoSimilarOutcome

PolygonIdle ==
    /\ pg_config = DetectionConfig
    /\ pg_image = NoImage
    /\ pg_result = <<>>
    /\ pg_pc = "off"

EmbedIdle ==
    /\ eb_texts = <<>>
    /\ eb_provider = 0
    /\ eb_result = [error |-> "none", value |-> <<>>]
    /\ eb_pc = "off"

QueueIdle ==
    /\ sm_manager = [save_crops |-> TRUE]
    /\ sm_sessions = <<>>
    /\ sm_files = {}
    /\ sm_json = <<>>
    /\ sm_last = [op |-> "off"]
    /\ sm_calls = 0

GotoIdle ==
    /\ br_manager = [retry_count |-> 0]
    /\ br_url = [mentions_timeout |-> FALSE]
    /\ br_attempt = 0
    /\ br_history = <<>>
    /\ br_pc = "off"
    /\ br_error = "none"

OrderIdle ==
    /\ op_pts = <<>>
    /\ op_result = <<>>
    /\ op_pc = "off"

ScrapeIdle ==
    /\ sc_file = [exists |-> FALSE]
    /\ sc_run = [themes |-> <<>>]
    /\ sc_pc = "off"
    /\ sc_result = 0
    /\ sc_calls = 0

AuxIdle ==
    /\ EmbedIdle
    /\ QueueIdle
    /\ GotoIdle
    /\ OrderIdle
    /\ ScrapeIdle

ExtIdle ==
    /\ ThreadsIdle
    /\ AsyncIdle
    /\ RepeatIdle
    /\ SimilarIdle
    /\ PolygonIdle
    /\ AuxIdle

CoreIdle ==
    /\ ClassifyIdle
    /\ DetectIdle
    /\ SearchIdle
    /\ IdentifyIdle
    /\ ThreadsIdle
    /\ AsyncIdle
    /\ RepeatIdle
    /\ SimilarIdle
    /\ PolygonIdle

Init ==
    /\ ExtIdle
    /\ ClassifyIdle
    /\ SearchIdle
    /\ IdentifyIdle
    /\ \E e \in BOOLEAN, m \in Machines :
            /\ dp_pipeline = DetectionPipelineNew(PipelineConfig(e, m.auto_download))
            /\ dp_world = m.world
    /\ dp_pc = "idle"
    /\ dp_image = NoImage
    /\ dp_flag = TRUE
    /\ dp_result = NoResult
    /\ dp_calls = 0

\* the state after a detect_stamps call that produced r
Returned(r) ==
    /\ dp_pipeline' = r.pipeline
    /\ dp_result' = [raised |-> r.raised, polygons |-> r.polygons,
                     accepted |-> r.accepted, rejected |-> r.rejected,
                     fallback_ran |-> r.fallback_ran,
                     stage1b_accepted |-> r.stage1b_accepted]
    /\ dp_pc' = IF r.raised THEN "raised" ELSE "returned"

\* one detect_stamps(image, use_yolo_fallback) call, start to return or raise
DetectStamps ==
    /\ dp_pc = "idle"
    /\ dp_calls < MaxCalls
    /\ \E image \in Images, use_yolo_fallback \in BOOLEAN :
        /\ Returned(detect_stamps(dp_pipeline, dp_world, image, use_yolo_fallback))
        /\ dp_image' = image
        /\ dp_flag' = use_yolo_fallback
    /\ dp_calls' = dp_calls + 1
    /\ UNCHANGED <<dp_world, cl_vars, sr_vars, id_vars, ext_vars>>

\* the caller takes the result; the dp_pipeline object lives on
NextCall ==
    /\ dp_pc \in {"returned", "raised"}
    /\ dp_pc' = "idle"
    /\ dp_image' = NoImage
    /\ dp_flag' = TRUE
    /\ dp_result' = NoResult
    /\ UNCHANGED <<dp_pipeline, dp_world, dp_calls, cl_vars, sr_vars, id_vars, ext_vars>>

\* a detect_raw(image) call on the pipeline's detector, between two
\* detect_stamps calls
DetectRaw ==
    /\ dp_pc = "idle"
    /\ ~dp_pipeline.yolo_detector.none
    /\ \E image \in Images :
          dp_pipeline' = [dp_pipeline EXCEPT
                             !.yolo_detector = detect_raw(@, dp_world, image).yolo]
    /\ UNCHANGED <<dp_world, dp_pc, dp_image, dp_flag, dp_result, dp_calls,
                   cl_vars, sr_vars, id_vars, ext_vars>>

Next ==
    \/ DetectStamps
    \/ NextCall
    \/ DetectRaw

Spec == Init /\ [][Next]_vars

\* the stamps of one source in a returned list, in order
FromSource(stamps, source) == SelectSeq(stamps, LAMBDA s : s.source = source)

Numbers(stamps) == [k \in 1..Len(stamps) |-> stamps[k].detection_id.number]

Increasing(ns) == \A j, k \in 1..Len(ns) : j < k => ns[j] < ns[k]

Finished == dp_pc \in {"returned", "raised"}

Geometric == FromSource(dp_result.accepted \o dp_result.rejected, "polygon_cv")

FromFallback == FromSource(dp_result.accepted \o dp_result.rejected, "yolo_fallback")

\* C1: the fallback path of a detect_stamps call runs exactly when no Stage 1A
\* candidate was accepted once all were classified and both the config flag
\* and the per-call flag enable it; with no candidate and fallback enabled it
\* runs, with an accepted candidate it never runs.
C1_FallbackIffNoneAccepted ==
    dp_pc = "returned" =>
        /\ dp_result.fallback_ran
           <=> /\ FromSource(dp_result.accepted, "polygon_cv") = <<>>
               /\ dp_flag
               /\ dp_pipeline.config.enable_yolo_fallback
        /\ (dp_result.polygons = <<>> /\ dp_flag
            /\ dp_pipeline.config.enable_yolo_fallback) => dp_result.fallback_ran
        /\ dp_result.stage1b_accepted > 0 => ~dp_result.fallback_ran

\* the fallback ran after every candidate was rejected, and found a stamp
C1_Witness ==
    /\ dp_pc = "returned"
    /\ dp_result.fallback_ran
    /\ dp_result.rejected # <<>>
    /\ FromSource(dp_result.accepted, "yolo_fallback") # <<>>

\* C7 as stated: no detect_stamps call raises, and every candidate whose
\* classification succeeds is returned in accepted or rejected even when the
\* classification of another candidate of the image fails.
C7_NoExceptionPropagates ==
    Finished =>
        /\ dp_pc # "raised"
        /\ \A i \in 1..Len(dp_result.polygons) :
              dp_result.polygons[i].cropped_image.ok =>
                  \E s \in Range(Geometric) : s.detection_id.number = i

\* C8: a returning detect_stamps call turns every polygon of PolygonDetector
\* into exactly one stamp of source "polygon_cv", in accepted if its verdict
\* is_stamp and in rejected otherwise; no stamp is in both lists; accepted
\* stamps have classifier_passed, rejected stamps do not.
C8_Partition ==
    dp_pc = "returned" =>
        /\ Len(Geometric) = Len(dp_result.polygons)
        /\ \A i \in 1..Len(dp_result.polygons) :
              \E s \in Range(IF classify(dp_pipeline.classifier,
                                         dp_result.polygons[i].cropped_image).is_stamp
                             THEN dp_result.accepted ELSE dp_result.rejected) :
                  /\ s.source = "polygon_cv"
                  /\ s.detection_id.number = i
                  /\ s.bounding_box = dp_result.polygons[i].bounding_box
                  /\ s.cropped_image = dp_result.polygons[i].cropped_image
        /\ Range(dp_result.accepted) \cap Range(dp_result.rejected) = {}
        /\ \A s \in Range(dp_result.accepted) : s.classifier_passed
        /\ \A s \in Range(dp_result.rejected) : ~s.classifier_passed

\* candidates on both sides of the partition
C8_Witness ==
    /\ dp_pc = "returned"
    /\ FromSource(dp_result.accepted, "polygon_cv") # <<>>
    /\ dp_result.rejected # <<>>

\* C9: after a detect_stamps call rejected holds geometric stamps only, every
\* fallback stamp is in accepted with classifier_passed and was accepted by
\* the classifier (the rejected ones are discarded), and a stamp has no
\* vertices exactly when its source is the fallback.
C9_RejectedFallbackDiscarded ==
    Finished =>
        /\ \A s \in Range(dp_result.rejected) : s.source = "polygon_cv"
        /\ \A s \in Range(FromFallback) :
              /\ s \in Range(dp_result.accepted)
              /\ s.classifier_passed
              /\ ~s.cropped_image.none
                   => classify(dp_pipeline.classifier, s.cropped_image).is_stamp
        /\ \A s \in Range(dp_result.accepted \o dp_result.rejected) :
              s.vertices.none <=> s.source = "yolo_fallback"

\* the fallback kept one detection of an image and discarded another
C9_Witness ==
    /\ dp_pc = "returned"
    /\ Len(FromFallback) = 1
    /\ \E k \in 1..Len(dp_image.boxes) :
          /\ YoloKeeps(dp_pipeline.config.yolo_config, dp_image.boxes[k],
                       dp_image.height * dp_image.width)
          /\ ~classify(dp_pipeline.classifier, dp_image.boxes[k].crop).is_stamp

\* the ids of one call are pairwise distinct, and the geometric stamps carry
\* 1..n in candidate order
GeometricIdsSequential ==
    /\ \A j, k \in 1..Len(dp_result.accepted \o dp_result.rejected) :
          j # k => (dp_result.accepted \o dp_result.rejected)[j].detection_id
                   # (dp_result.accepted \o dp_result.rejected)[k].detection_id
    /\ Range(Numbers(Geometric)) = 1..Len(dp_result.polygons)
    /\ Increasing(Numbers(FromSource(dp_result.accepted, "polygon_cv")))
    /\ Increasing(Numbers(dp_result.rejected))

\* C10 as stated: the geometric stamps carry 1..n in candidate order, the
\* fallback stamps in accepted carry 1..m in order without gaps, and all ids
\* of one call are pairwise distinct.
C10_AsStated ==
    dp_pc = "returned" =>
        /\ GeometricIdsSequential
        /\ Numbers(FromFallback) = [k \in 1..Len(FromFallback) |-> k]

\* what YOLODetector.detect returned in the call that produced dp_result
Detections ==
    YoloFilter(dp_pipeline.config.yolo_config, dp_image.boxes,
               dp_image.height * dp_image.width)

\* C10 amended: the geometric stamps carry 1..n in candidate order; every
\* fallback stamp carries the 1-based position its detection has in the
\* fallback detector's output, so these numbers increase but skip the
\* detections the classifier rejected; all ids of one call are pairwise
\* distinct.
C10_IdsByPosition ==
    dp_pc = "returned" =>
        /\ GeometricIdsSequential
        /\ Increasing(Numbers(FromFallback))
        /\ \A s \in Range(FromFallback) :
              /\ s.detection_id.number \in 1..Len(Detections)
              /\ s.bounding_box = Detections[s.detection_id.number].bounding_box
              /\ s.cropped_image = Detections[s.detection_id.number].cropped_image

\* the only fallback stamp of a call is numbered 2: detection 1 was rejected
C10_Witness ==
    /\ dp_pc = "returned"
    /\ Len(FromFallback) = 1
    /\ FromFallback[1].detection_id = DetectionId("yolo", 2)
    /\ dp_result.rejected # <<>>

(***************************************************************************)
(* SpecClassify: StampClassifier.classify on every crop, under every       *)
(* configuration                                                           *)
(***************************************************************************)

\* weights (per cent): the defaults, equal weights, and weights that do not
\* sum to 1.0 (the settings are not validated)
WeightSets ==
    { <<DefaultColorVarianceWeight, DefaultEdgeComplexityWeight,
        DefaultSizeWeight, DefaultPerforationWeight>>,
      <<25, 25, 25, 25>>,
      <<100, 100, 100, 100>>,
      <<10, 10, 10, 10>> }

ClassifierConfigs ==
    { ClassifierConfig(m, t, ws[1], ws[2], ws[3], ws[4], path) :
        m \in Modes, t \in {30, 50, DefaultConfidenceThreshold},
        ws \in WeightSets, path \in ModelPaths }

ClassifyCrops ==
    { Crop(TRUE, var, dens, wh[1], wh[2], pvar) :
        var \in {0, 499, 500, 5000, 10000, 20000},
        dens \in {0, 49, 50, 125, 250, 1000},
        wh \in {<<4, 4>>, <<20, 20>>, <<150, 180>>, <<225, 270>>, <<600, 600>>},
        pvar \in {0, 200, 600, 1001} }
    \cup {EmptyCrop}

InitClassify ==
    /\ ExtIdle
    /\ DetectIdle
    /\ SearchIdle
    /\ IdentifyIdle
    /\ cl_clf \in {StampClassifierNew(c) : c \in ClassifierConfigs}
    /\ cl_crop = NoneCrop
    /\ cl_verdict = Raised
    /\ cl_pc = "idle"

ClassifyDone(crop, verdict) ==
    /\ cl_crop' = crop
    /\ cl_verdict' = verdict
    /\ cl_pc' = IF verdict.raised THEN "raised" ELSE "returned"

\* one classify(crop) call
Classify ==
    /\ cl_pc = "idle"
    /\ \E crop \in ClassifyCrops : ClassifyDone(crop, classify(cl_clf, crop))
    /\ UNCHANGED <<cl_clf, dp_vars, sr_vars, id_vars, ext_vars>>

NextClassify == Classify

SpecClassify == InitClassify /\ [][NextClassify]_vars

\* the weights are non-negative and sum to at most 1.0
WeightsNormal(cfg) ==
    /\ cfg.color_variance_weight >= 0 /\ cfg.edge_complexity_weight >= 0
    /\ cfg.size_weight >= 0 /\ cfg.perforation_weight >= 0
    /\ cfg.color_variance_weight + cfg.edge_complexity_weight
       + cfg.size_weight + cfg.perforation_weight <= 100

\* C6 as stated: every verdict of classify, under every configuration, has
\* its confidence in [0,1] and is_stamp = (confidence >= confidence_threshold).
C6_AsStated ==
    cl_pc = "returned" =>
        /\ cl_verdict.confidence >= 0 /\ cl_verdict.confidence <= ConfOne
        /\ cl_verdict.is_stamp = MeetsThreshold(cl_clf.config, cl_verdict.confidence)

\* C6 amended: under every configuration the verdict's is_stamp is exactly
\* (confidence >= confidence_threshold); its confidence is in [0,1] whenever
\* the four weights are non-negative and sum to at most 1.0.
C6_VerdictConsistent ==
    cl_pc = "returned" =>
        /\ cl_verdict.is_stamp
           = (cl_verdict.confidence
              >= cl_clf.config.confidence_threshold * (ConfOne \div 100))
        /\ WeightsNormal(cl_clf.config) =>
              (cl_verdict.confidence >= 0 /\ cl_verdict.confidence <= ConfOne)

\* a verdict exactly on the threshold, under normal weights, in "both" mode
C6_Witness ==
    /\ cl_pc = "returned"
    /\ WeightsNormal(cl_clf.config)
    /\ cl_clf.config.mode = "both"
    /\ cl_verdict.confidence = cl_clf.config.confidence_threshold * (ConfOne \div 100)
    /\ cl_verdict.is_stamp

(***************************************************************************)
(* SpecSearch: one RAGSearcher.identify call against every table           *)
(***************************************************************************)

InitSearch ==
    /\ ExtIdle
    /\ ClassifyIdle
    /\ DetectIdle
    /\ IdentifyIdle
    /\ \E w \in SearchWorlds, rows \in Tables :
          /\ sr_searcher = RAGSearcherNew(w.embedder, w.supabase)
          /\ sr_settings = w.settings
          /\ sr_env = Env(w.provider, w.rpc, w.table_query, rows)
    /\ sr_pc = "idle"
    /\ sr_query = NoQuery
    /\ sr_outcome = NoOutcome

IdentifyDone(outcome) ==
    /\ sr_searcher' = outcome.searcher
    /\ sr_outcome' = outcome
    /\ sr_pc' = IF outcome.error = "none" THEN "returned" ELSE "raised"

\* one identify(description, top_k) call, start to return or raise
Identify ==
    /\ sr_pc = "idle"
    /\ \E description \in Descriptions, top_k \in 1..MaxTopK :
          /\ sr_query' = [description |-> description, top_k |-> top_k]
          /\ IdentifyDone(identify(sr_searcher, sr_settings, sr_env, description, top_k))
    /\ UNCHANGED <<sr_settings, sr_env, cl_vars, dp_vars, id_vars, ext_vars>>

NextSearch == Identify

SpecSearch == InitSearch /\ [][NextSearch]_vars

\* what the vector store answers to the search of the current identify call
StoreAnswer ==
    SupabaseSearch(sr_env, 2 * sr_query.top_k, sr_settings.RAG_MATCH_MIN_THRESHOLD)

DefaultThresholds ==
    /\ sr_settings.RAG_MATCH_AUTO_THRESHOLD = RagMatchAutoThreshold
    /\ sr_settings.RAG_MATCH_MIN_THRESHOLD = RagMatchMinThreshold

\* the tier of a returned identify call, and its designated auto match
TierIs(tier) == sr_outcome.value.confidence = tier

ConstructionFails ==
    \/ sr_searcher.embedder = "None" /\ ~sr_settings.openai_key
    \/ sr_searcher.supabase = "None" /\ ~sr_settings.supabase_config

\* the embedder or the vector store fails in the current identify call
CollaboratorFails ==
    \/ ConstructionFails
    \/ EmbedRaises(sr_env, sr_query.description)
    \/ StoreAnswer.raised

InitIdentify ==
    /\ ExtIdle
    /\ ClassifyIdle
    /\ \E w \in IdentifyWorlds :
          /\ dp_world = w.world
          /\ sr_settings = Settings(RagMatchAutoThreshold, RagMatchMinThreshold,
                                    w.openai_key, TRUE)
    /\ dp_pipeline = DetectionPipelineNew(PipelineConfig(TRUE, TRUE))
    /\ dp_pc = "off"
    /\ dp_image = NoImage
    /\ dp_flag = TRUE
    /\ dp_result = NoResult
    /\ dp_calls = 0
    /\ sr_searcher = RAGSearcherNew("None", "None")
    /\ sr_env = Env("ok", "ok", "ok", <<>>)
    /\ sr_pc = "off"
    /\ sr_query = NoQuery
    /\ sr_outcome = NoOutcome
    /\ id_pc = "idle"
    /\ id_accepted = <<>>
    /\ id_idx = 0
    /\ id_session = <<>>
    /\ id_identifications = <<>>
    /\ id_missed = <<>>
    /\ id_attempts = <<>>

\* Step 5 and the return of identify_image, the session being complete
SaveAndReturn(detections) ==
    /\ id_missed' = save_session(SessionManager, id_missed, detections)
    /\ id_pc' = "returned"

\* identify_image from its start to the first _identify_stamp: detect_stamps
\* raising ends the call with IdentificationError; no detection at all returns
\* an empty batch, unsaved; no accepted stamp goes straight to save_session
Detected(r) ==
    /\ dp_pipeline' = r.pipeline
    /\ dp_result' = [raised |-> r.raised, polygons |-> r.polygons,
                     accepted |-> r.accepted, rejected |-> r.rejected,
                     fallback_ran |-> r.fallback_ran,
                     stage1b_accepted |-> r.stage1b_accepted]
    /\ id_accepted' = r.accepted
    /\ id_session' = RejectedFeedback(r.rejected)
    /\ id_idx' = 1
    /\ IF r.raised THEN id_pc' = "raised" /\ id_missed' = id_missed
       ELSE IF Len(r.accepted) = 0 /\ Len(r.rejected) = 0
       THEN id_pc' = "returned" /\ id_missed' = id_missed
       ELSE IF Len(r.accepted) = 0 THEN SaveAndReturn(RejectedFeedback(r.rejected))
       ELSE id_pc' = "identifying" /\ id_missed' = id_missed

StartIdentify ==
    /\ id_pc = "idle"
    /\ \E image \in IdentifyImages :
          /\ dp_image' = image
          /\ Detected(detect_stamps(dp_pipeline, dp_world, image, TRUE))
    /\ UNCHANGED <<dp_world, dp_pc, dp_flag, dp_calls, cl_vars, sr_vars,
                   id_identifications, id_attempts, ext_vars>>

\* mutant: a failed identification ends the call
AppendedUnlessFailed(done, detections) ==
    /\ sr_searcher' = done.searcher
    /\ id_session' = IF done.failed = "none" THEN detections ELSE id_session
    /\ id_identifications' = IF done.identification.none THEN id_identifications
                             ELSE Append(id_identifications, done.identification)
    /\ id_attempts' = Append(id_attempts,
                             [detection_id |-> id_accepted[id_idx].detection_id,
                              failed |-> done.failed])
    /\ id_idx' = id_idx + 1
    /\ id_missed' = IF done.failed = "none" /\ id_idx = Len(id_accepted)
                    THEN save_session(SessionManager, id_missed, detections)
                    ELSE id_missed
    /\ id_pc' = IF done.failed # "none" THEN "raised"
                ELSE IF id_idx = Len(id_accepted) THEN "returned" ELSE "identifying"

Appended(done, detections) ==
    /\ sr_searcher' = done.searcher
    /\ id_session' = detections
    /\ id_identifications' = IF done.identification.none THEN id_identifications
                             ELSE Append(id_identifications, done.identification)
    /\ id_attempts' = Append(id_attempts,
                             [detection_id |-> id_accepted[id_idx].detection_id,
                              failed |-> done.failed])
    /\ id_idx' = id_idx + 1
    /\ IF id_idx = Len(id_accepted) THEN SaveAndReturn(detections)
       ELSE id_pc' = "identifying" /\ id_missed' = id_missed

\* one round of the Step 4 loop; after the last stamp, save_session and return
IdentifyStamp ==
    /\ id_pc = "identifying"
    /\ id_idx <= Len(id_accepted)
    /\ \E case \in Cases :
          Appended(_identify_stamp(sr_searcher, sr_settings, id_accepted[id_idx], case),
                   Append(id_session,
                          _identify_stamp(sr_searcher, sr_settings,
                                          id_accepted[id_idx], case).feedback))
    /\ UNCHANGED <<dp_vars, cl_vars, sr_settings, sr_env, sr_pc, sr_query, sr_outcome,
                   id_accepted, ext_vars>>

NextIdentify ==
    \/ StartIdentify
    \/ IdentifyStamp

SpecIdentify == InitIdentify /\ [][NextIdentify]_vars

\* the feedback entry of the k-th accepted stamp: the rejected stamps' come first
FeedbackOf(k) == id_session[Len(dp_result.rejected) + k]

\* the describer, the embedder or the vector store raised for the k-th stamp
IdentificationFailed(k) ==
    id_attempts[k].failed \in {"describer", "embedder", "vector_store"}

\* C4 as stated: a stamp for which the describer, the embedder or the vector
\* store raised is not recorded as a no-match: its feedback status is not
\* "no_match" and save_session writes no missed_stamps entry for it.
C4_FailureIsNotNoMatch ==
    \A k \in 1..Len(id_attempts) :
        IdentificationFailed(k) =>
            /\ status(FeedbackOf(k)) # "no_match"
            /\ \A m \in Range(id_missed) : m.index # Len(dp_result.rejected) + k

\* C5: a failed identification does not stop the batch: the stamps of
\* accepted are attempted in order, each attempt appends exactly one feedback
\* entry whatever happened to the others, the call never raises once the
\* loop has begun, and it returns exactly when every accepted stamp has been
\* attempted.
C5_FailureDoesNotStopBatch ==
    id_pc \in {"identifying", "returned", "raised"} =>
        /\ id_attempts # <<>> => id_pc # "raised"
        /\ id_pc # "raised" =>
              /\ Len(id_session) = Len(dp_result.rejected) + Len(id_attempts)
              /\ Len(id_attempts) <= Len(id_accepted)
              /\ \A k \in 1..Len(id_attempts) :
                    /\ id_attempts[k].detection_id = id_accepted[k].detection_id
                    /\ FeedbackOf(k).detection_id = id_accepted[k].detection_id
                    /\ FeedbackOf(k).stage_2_searched
              /\ (id_pc = "returned") <=> (Len(id_attempts) = Len(id_accepted))
              /\ id_pc = "returned" =>
                    \A j \in 1..Len(id_accepted) :
                        Cardinality({i \in 1..Len(id_session) :
                            id_session[i].detection_id = id_accepted[j].detection_id}) = 1

\* the first of two accepted stamps failed in the describer, the second was
\* identified, and the batch was returned
C5_Witness ==
    /\ id_pc = "returned"
    /\ Len(id_attempts) = 2
    /\ id_attempts[1].failed = "describer"
    /\ id_attempts[2].failed = "none"
    /\ Len(id_identifications) = 1

(***************************************************************************)
(* SpecThreads: threads inside _run_yolo_fallback of one shared pipeline.  *)
(* Each thread has called detect_stamps on an image of which Stage 1B      *)
(* accepted nothing, so each reaches _run_yolo_fallback.  Neither          *)
(* _get_yolo_detector nor _ensure_model_loaded takes a lock, so a thread   *)
(* may be preempted between the test of a field and the assignment to it:  *)
(* every such point is a step of its own.                                  *)
(***************************************************************************)

InitThreads ==
    /\ AsyncIdle
    /\ RepeatIdle
    /\ SimilarIdle
    /\ PolygonIdle
    /\ AuxIdle
    /\ ClassifyIdle
    /\ DetectIdle
    /\ SearchIdle
    /\ IdentifyIdle
    /\ \E e \in BOOLEAN, m \in Machines :
            /\ th_pipeline = [config |-> PipelineConfig(e, m.auto_download),
                              yolo_detector |-> 0]
            /\ th_world = m.world
    /\ th_heap = <<>>
    /\ th_pc = [t \in Threads |-> "call"]
    /\ th_yolo = [t \in Threads |-> 0]

\* what no thread of SpecThreads touches
th_others == <<cl_vars, dp_vars, sr_vars, id_vars, as_vars, rp_vars, fs_vars, pg_vars, aux_vars>>

ThreadGoes(t, pc) == th_pc' = [th_pc EXCEPT ![t] = pc]

\* _get_yolo_detector, the test of its if statement
GetYoloTest(t) ==
    /\ th_pc[t] = "call"
    /\ ThreadGoes(t, IF th_pipeline.yolo_detector = 0
                        /\ th_pipeline.config.enable_yolo_fallback
                     THEN "construct" ELSE "return")
    /\ UNCHANGED <<th_pipeline, th_heap, th_world, th_yolo, th_others>>

\* self.yolo_detector = YOLODetector(self.config.yolo_config)
GetYoloConstruct(t) ==
    /\ th_pc[t] = "construct"
    /\ th_heap' = Append(th_heap, YOLODetectorNew(th_pipeline.config.yolo_config))
    /\ th_pipeline' = [th_pipeline EXCEPT !.yolo_detector = Len(th_heap) + 1]
    /\ ThreadGoes(t, "return")
    /\ UNCHANGED <<th_world, th_yolo, th_others>>

\* return self.yolo_detector, and the test yolo is None of _run_yolo_fallback
GetYoloReturn(t) ==
    /\ th_pc[t] = "return"
    /\ th_yolo' = [th_yolo EXCEPT ![t] = th_pipeline.yolo_detector]
    /\ ThreadGoes(t, IF th_pipeline.yolo_detector = 0 THEN "done" ELSE "available")
    /\ UNCHANGED <<th_pipeline, th_heap, th_world, th_others>>

\* not yolo.is_available() of _run_yolo_fallback
FallbackAvailable(t) ==
    /\ th_pc[t] = "available"
    /\ th_heap' = [th_heap EXCEPT ![th_yolo[t]] = is_available(@, th_world)]
    /\ ThreadGoes(t, IF th_heap'[th_yolo[t]]._available = "False"
                     THEN "done" ELSE "ensure")
    /\ UNCHANGED <<th_pipeline, th_world, th_yolo, th_others>>

\* yolo.detect enters _ensure_model_loaded: the test of self._model
EnsureTest(t) ==
    /\ th_pc[t] = "ensure"
    /\ ThreadGoes(t, IF th_heap[th_yolo[t]]._model # "None" THEN "infer" ELSE "load")
    /\ UNCHANGED <<th_pipeline, th_heap, th_world, th_yolo, th_others>>

\* the rest of _ensure_model_loaded: is_available and the try block
EnsureLoad(t) ==
    /\ th_pc[t] = "load"
    /\ LET loaded == LoadIfAvailable(is_available(th_heap[th_yolo[t]], th_world),
                                     th_world)
       IN  /\ th_heap' = [th_heap EXCEPT ![th_yolo[t]] = loaded.yolo]
           /\ ThreadGoes(t, IF loaded.ok THEN "infer" ELSE "done")
    /\ UNCHANGED <<th_pipeline, th_world, th_yolo, th_others>>

\* the inference of detect and the rest of the call
ThreadInfer(t) ==
    /\ th_pc[t] = "infer"
    /\ ThreadGoes(t, "done")
    /\ UNCHANGED <<th_pipeline, th_heap, th_world, th_yolo, th_others>>

NextThreads ==
    \/ \E t \in Threads : GetYoloTest(t)
    \/ \E t \in Threads : GetYoloConstruct(t)
    \/ \E t \in Threads : GetYoloReturn(t)
    \/ \E t \in Threads : FallbackAvailable(t)
    \/ \E t \in Threads : EnsureTest(t)
    \/ \E t \in Threads : EnsureLoad(t)
    \/ \E t \in Threads : ThreadInfer(t)

SpecThreads == InitThreads /\ [][NextThreads]_vars

RECURSIVE ModelLoads(_)
\* the YOLO(...) constructions that succeeded, over all detectors
ModelLoads(heap) ==
    IF heap = <<>> THEN 0 ELSE Head(heap).loads + ModelLoads(Tail(heap))

\* C11: when two threads call detect_stamps on a shared pipeline before any
\* model is loaded, the model is loaded at most once and at most one
\* YOLODetector is created.  The code takes no lock, and this is violated.
C11_LoadedAtMostOnce ==
    /\ Len(th_heap) <= 1
    /\ ModelLoads(th_heap) <= 1

(***************************************************************************)
(* Spec, continued: the fallback detector that cannot be loaded            *)
(***************************************************************************)

\* the three ways the fallback model is unavailable
ModelUnavailable(config, world) ==
    \/ ~world.ultralytics
    \/ ~world.weights /\ ~config.auto_download
    \/ world.load_raises

\* Stage 1B of the current call, taken alone
Stage1BAlone ==
    ClassifyPolygons(dp_pipeline.classifier, dp_result.polygons, 1, <<>>, <<>>)

\* C12: when the fallback model is unavailable (ultralytics missing, weights
\* missing with auto_download off, or loading raises), YOLODetector.detect
\* returns an empty list, and a detect_stamps call that reaches the fallback
\* returns normally with no fallback stamp added and with the rejected list
\* exactly as Stage 1B left it.
C12_UnavailableFallbackAddsNothing ==
    (Finished /\ ModelUnavailable(dp_pipeline.config.yolo_config, dp_world)) =>
        /\ YoloDetect(YOLODetectorNew(dp_pipeline.config.yolo_config), dp_world,
                      dp_image).detections = <<>>
        /\ ~dp_pipeline.yolo_detector.none =>
              /\ YoloDetect(dp_pipeline.yolo_detector, dp_world, dp_image).detections
                 = <<>>
              /\ dp_pipeline.yolo_detector._model = "None"
        /\ dp_result.fallback_ran =>
              /\ dp_pc = "returned"
              /\ dp_result.accepted = <<>>
              /\ dp_result.rejected = Stage1BAlone.rejected
        /\ FromFallback = <<>>

\* a call that reached the fallback with boxes a loaded model would report,
\* on a machine where loading raises, after Stage 1B rejected a candidate
C12_Witness ==
    /\ dp_pc = "returned"
    /\ dp_result.fallback_ran
    /\ dp_world.ultralytics /\ dp_world.load_raises
    /\ ~dp_pipeline.yolo_detector.none
    /\ dp_image.boxes # <<>>
    /\ Len(dp_result.rejected) = 1

(***************************************************************************)
(* SpecClassify, continued: a classifier configured for a model it has not *)
(***************************************************************************)

\* the configurations that ask for a model whose artifact is missing or
\* whose path is not given
WithoutModel ==
    { c \in ClassifierConfigs :
        c.mode \in {"model", "both"} /\ c.model_path \in {"none", "missing"} }

\* the same configuration with mode "heuristic"
AsHeuristic(c) == [c EXCEPT !.mode = "heuristic"]

\* C13: a classifier configured with mode "model" or "both" whose model
\* artifact is missing, or that has no model path, is constructed without a
\* model, and every classify call ends as the call of a classifier configured
\* with mode "heuristic" ends: with the same verdict, which is the verdict of
\* _heuristic_check, and it returns for every crop cv2 can convert.
C13_MissingModelIsHeuristic ==
    \A c \in WithoutModel :
        cl_clf = StampClassifierNew(c) =>
            /\ cl_clf.model = "None"
            /\ cl_pc \in {"returned", "raised"} =>
                  /\ cl_verdict = classify(StampClassifierNew(AsHeuristic(c)), cl_crop)
                  /\ cl_verdict = _heuristic_check(AsHeuristic(c), cl_crop)
                  /\ cl_crop.ok => cl_pc = "returned"

\* a classifier left in mode "model" without a model has accepted a crop by
\* its heuristics
C13_Witness ==
    /\ cl_pc = "returned"
    /\ cl_clf.config.mode = "model"
    /\ cl_clf.config.model_path = "none"
    /\ cl_verdict.is_stamp
    /\ cl_verdict.confidence # ConfOne \div 2

(***************************************************************************)
(* SpecAsync: identify calls issued through identify_async, each run by    *)
(* asyncio.to_thread on a worker thread, on one shared RAGSearcher.        *)
(* _ensure_initialized takes no lock: the tests and the assignments of its *)
(* lines are steps of their own.  The rest of identify reads the handles   *)
(* and talks to the provider and the store; it is one step.                *)
(***************************************************************************)

\* the stores the concurrent calls search
AsyncTables == { <<>>, <<Row(1, TRUE, 95)>>, <<Row(1, TRUE, 70)>> }

AsyncWorlds ==
    { [embedder |-> w.embedder, supabase |-> w.supabase, settings |-> w.settings,
       provider |-> w.provider, rpc |-> w.rpc, table_query |-> w.table_query,
       rows |-> rows] : w \in SearchWorlds, rows \in AsyncTables }

AsyncEnv == Env(as_world.provider, as_world.rpc, as_world.table_query, as_world.rows)

InitAsync ==
    /\ ClassifyIdle
    /\ DetectIdle
    /\ SearchIdle
    /\ IdentifyIdle
    /\ ThreadsIdle
    /\ RepeatIdle
    /\ SimilarIdle
    /\ PolygonIdle
    /\ AuxIdle
    /\ as_world \in AsyncWorlds
    /\ as_searcher = RAGSearcherNew(as_world.embedder, as_world.supabase)
    /\ as_pc = [t \in Threads |-> "idle"]
    /\ as_query = [t \in Threads |-> NoQuery]
    /\ as_result = [t \in Threads |-> NoAsyncResult]

\* what no call of SpecAsync touches
as_others == <<cl_vars, dp_vars, sr_vars, id_vars, th_vars, rp_vars, fs_vars, pg_vars, aux_vars,
               as_world>>

AsyncGoes(t, pc) == as_pc' = [as_pc EXCEPT ![t] = pc]

AsyncEnds(t, outcome) ==
    /\ as_result' = [as_result EXCEPT ![t] = [error |-> outcome.error,
                                              value |-> outcome.value,
                                              failed |-> outcome.failed]]
    /\ AsyncGoes(t, IF outcome.error = "none" THEN "returned" ELSE "raised")

\* identify is entered: _ensure_initialized tests self._initialized
AsyncCall(t) ==
    /\ as_pc[t] = "idle"
    /\ \E description \in Descriptions :
          as_query' = [as_query EXCEPT ![t] = [description |-> description,
                                               top_k |-> IdentifyTopK]]
    /\ AsyncGoes(t, IF as_searcher._initialized THEN "search" ELSE "embedder")
    /\ UNCHANGED <<as_searcher, as_result, as_others>>

\* if self.embedder is None
AsyncTestEmbedder(t) ==
    /\ as_pc[t] = "embedder"
    /\ AsyncGoes(t, IF as_searcher.embedder = "None" THEN "new_embedder" ELSE "supabase")
    /\ UNCHANGED <<as_searcher, as_query, as_result, as_others>>

\* self.embedder = EmbeddingGenerator()
AsyncNewEmbedder(t) ==
    /\ as_pc[t] = "new_embedder"
    /\ IF ~as_world.settings.openai_key
       THEN /\ AsyncEnds(t, Outcome(as_searcher, "EmbeddingError",
                                    NoIdentificationResult, "embedder"))
            /\ UNCHANGED as_searcher
       ELSE /\ as_searcher' = [as_searcher EXCEPT !.embedder = "built",
                                                  !.embedders_built = @ + 1]
            /\ AsyncGoes(t, "supabase")
            /\ UNCHANGED as_result
    /\ UNCHANGED <<as_query, as_others>>

\* if self.supabase is None
AsyncTestSupabase(t) ==
    /\ as_pc[t] = "supabase"
    /\ AsyncGoes(t, IF as_searcher.supabase = "None" THEN "new_supabase" ELSE "flag")
    /\ UNCHANGED <<as_searcher, as_query, as_result, as_others>>

\* self.supabase = SupabaseRAG()
AsyncNewSupabase(t) ==
    /\ as_pc[t] = "new_supabase"
    /\ IF ~as_world.settings.supabase_config
       THEN /\ AsyncEnds(t, Outcome(as_searcher, "SupabaseError",
                                    NoIdentificationResult, "vector_store"))
            /\ UNCHANGED as_searcher
       ELSE /\ as_searcher' = [as_searcher EXCEPT !.supabase = "built",
                                                  !.stores_built = @ + 1]
            /\ AsyncGoes(t, "flag")
            /\ UNCHANGED as_result
    /\ UNCHANGED <<as_query, as_others>>

\* self._initialized = True
AsyncSetInitialized(t) ==
    /\ as_pc[t] = "flag"
    /\ as_searcher' = [as_searcher EXCEPT !._initialized = TRUE]
    /\ AsyncGoes(t, "search")
    /\ UNCHANGED <<as_query, as_result, as_others>>

\* the rest of identify: search and the tiering
AsyncSearch(t) ==
    /\ as_pc[t] = "search"
    /\ AsyncEnds(t, IdentifyWith([searcher |-> as_searcher, error |-> "none"],
                                 as_world.settings, AsyncEnv,
                                 as_query[t].description, as_query[t].top_k))
    /\ UNCHANGED <<as_searcher, as_query, as_others>>

NextAsync ==
    \/ \E t \in Threads : AsyncCall(t)
    \/ \E t \in Threads : AsyncTestEmbedder(t)
    \/ \E t \in Threads : AsyncNewEmbedder(t)
    \/ \E t \in Threads : AsyncTestSupabase(t)
    \/ \E t \in Threads : AsyncNewSupabase(t)
    \/ \E t \in Threads : AsyncSetInitialized(t)
    \/ \E t \in Threads : AsyncSearch(t)

SpecAsync == InitAsync /\ [][NextAsync]_vars

\* what the call of thread t returns when it runs alone on the searcher as
\* it was built
AsyncAlone(t) ==
    identify(RAGSearcherNew(as_world.embedder, as_world.supabase), as_world.settings,
             AsyncEnv, as_query[t].description, as_query[t].top_k)

AsyncSameAsAlone ==
    \A t \in Threads :
        as_pc[t] \in {"returned", "raised"} =>
            /\ as_result[t].error = AsyncAlone(t).error
            /\ as_result[t].value = AsyncAlone(t).value

\* C14: concurrent identify calls on one RAGSearcher each return what they
\* return when run alone, and the searcher's embedder and vector-store handles
\* are each initialised at most once.  The first half holds; the second is
\* violated, _ensure_initialized being a test followed by an unguarded
\* assignment.
C14_IndependentAndInitialisedOnce ==
    /\ AsyncSameAsAlone
    /\ as_searcher.embedders_built <= 1
    /\ as_searcher.stores_built <= 1

(***************************************************************************)
(* SpecRepeat: identify called again and again on one RAGSearcher, with    *)
(* the provider and the table as they are.                                 *)
(***************************************************************************)

\* rows of stamps_rag below and at the thresholds, and a row without embedding
RepeatRowKinds(colnect_id) ==
    { Row(colnect_id, TRUE, sim) : sim \in {50, 90} } \cup { Row(colnect_id, FALSE, 0) }

RepeatTables ==
    UNION { { t \in [1..n -> UNION {RepeatRowKinds(k) : k \in 1..n}] :
                \A k \in 1..n : t[k].colnect_id = k } : n \in 0..MaxRows }

InitRepeat ==
    /\ ClassifyIdle
    /\ DetectIdle
    /\ IdentifyIdle
    /\ ThreadsIdle
    /\ AsyncIdle
    /\ RepeatIdle
    /\ SimilarIdle
    /\ PolygonIdle
    /\ AuxIdle
    /\ \E w \in SearchWorlds, rows \in RepeatTables :
          /\ sr_searcher = RAGSearcherNew(w.embedder, w.supabase)
          /\ sr_settings = w.settings
          /\ sr_env = Env(w.provider, w.rpc, w.table_query, rows)
    /\ sr_pc = "idle"
    /\ sr_query = NoQuery
    /\ sr_outcome = NoOutcome

\* mutant: the search takes the best row out of the table
StoreAfterIdentifyConsumes(env, outcome) ==
    IF outcome.error = "none" /\ env.rows # <<>>
    THEN [env EXCEPT !.rows = Tail(env.rows)] ELSE env

\* The table after an identify call.  identify talks to the store through
\* SupabaseRAG.search alone, which calls the match_stamps function or selects
\* from the table; neither writes.
StoreAfterIdentify(env, outcome) == env

\* one identify(description, top_k) call, start to return or raise
RepeatIdentify ==
    /\ sr_pc = "idle"
    /\ rp_calls < MaxCalls
    /\ \E description \in Descriptions, top_k \in 1..MaxTopK :
          /\ sr_query' = [description |-> description, top_k |-> top_k]
          /\ IdentifyDone(identify(sr_searcher, sr_settings, sr_env, description, top_k))
          /\ sr_env' = StoreAfterIdentify(sr_env, identify(sr_searcher, sr_settings,
                                                           sr_env, description, top_k))
    /\ rp_calls' = rp_calls + 1
    /\ UNCHANGED <<sr_settings, rp_prev, cl_vars, dp_vars, id_vars, th_vars, as_vars, fs_vars, pg_vars, aux_vars>>

\* the caller takes the result; the searcher lives on
RepeatNext ==
    /\ sr_pc \in {"returned", "raised"}
    /\ rp_calls < MaxCalls
    /\ rp_prev' = [none |-> FALSE, query |-> sr_query, error |-> sr_outcome.error,
                   value |-> sr_outcome.value, env |-> sr_env]
    /\ sr_pc' = "idle"
    /\ sr_query' = NoQuery
    /\ UNCHANGED <<sr_searcher, sr_settings, sr_env, sr_outcome, rp_calls,
                   cl_vars, dp_vars, id_vars, th_vars, as_vars, fs_vars, pg_vars, aux_vars>>

NextRepeat ==
    \/ RepeatIdentify
    \/ RepeatNext

SpecRepeat == InitRepeat /\ [][NextRepeat]_vars

\* the current call has ended and repeats the query of the call before it
Repeated ==
    /\ sr_pc \in {"returned", "raised"}
    /\ ~rp_prev.none
    /\ rp_prev.query = sr_query

AllMatches ==
    search(sr_outcome.searcher, sr_settings, sr_env, sr_query.description,
           2 * sr_query.top_k, sr_settings.RAG_MATCH_MIN_THRESHOLD).value

\* results[k] is the store's k-th pair with rank k, for every k
RankedAsStored(results, stored) ==
    /\ Len(results) <= Len(stored)
    /\ \A k \in 1..Len(results) :
          /\ results[k].rank = k
          /\ results[k].entry = stored[k].entry
          /\ results[k].similarity = stored[k].similarity

NonIncreasing(results) ==
    \A j, k \in 1..Len(results) : j < k => results[j].similarity >= results[k].similarity

\* C16: the results of search and of identify carry the ranks 1, 2, ..., n
\* without gaps in the order the vector store returned them (nothing is
\* re-sorted, so equal similarities keep the store's order), and their
\* similarities do not increase along the ranks when the store's list is
\* sorted descending.
C16_RanksFollowStore ==
    sr_pc = "returned" =>
        /\ ~StoreAnswer.raised
        /\ Len(AllMatches) = Len(StoreAnswer.entries)
        /\ RankedAsStored(AllMatches, StoreAnswer.entries)
        /\ RankedAsStored(sr_outcome.value.top_matches, StoreAnswer.entries)
        /\ NonIncreasing(StoreAnswer.entries) =>
              /\ NonIncreasing(AllMatches)
              /\ NonIncreasing(sr_outcome.value.top_matches)

\* two matches of equal similarity returned in the store's order, a less
\* similar row standing before them in the table
C16_Witness ==
    /\ sr_pc = "returned"
    /\ Len(sr_outcome.value.top_matches) = 2
    /\ sr_outcome.value.top_matches[1].similarity
       = sr_outcome.value.top_matches[2].similarity
    /\ sr_outcome.value.top_matches[1].entry.colnect_id = 2
    /\ sr_outcome.value.top_matches[2].entry.colnect_id = 3
    /\ Len(AllMatches) = 3

\* C17: identify asks the vector store for at most 2*top_k entries with the
\* minimum-similarity floor applied, and top_matches is the prefix of length
\* min(top_k, number of results) of the store's list: every returned match has
\* similarity >= the minimum threshold, and at most top_k matches are
\* returned, in the auto_accept tier as in the review tier.
C17_TopMatchesIsPrefix ==
    /\ sr_pc = "returned" =>
          /\ ~StoreAnswer.raised
          /\ Len(StoreAnswer.entries) <= 2 * sr_query.top_k
          /\ sr_outcome.value.top_matches
             = SubSeq(SearchResults(StoreAnswer.entries), 1,
                      Min(sr_query.top_k, Len(StoreAnswer.entries)))
          /\ Len(sr_outcome.value.top_matches) <= sr_query.top_k
          /\ \A k \in 1..Len(sr_outcome.value.top_matches) :
                sr_outcome.value.top_matches[k].similarity
                >= sr_settings.RAG_MATCH_MIN_THRESHOLD
    /\ (sr_pc = "raised" /\ sr_outcome.error = "SearchError"
        /\ sr_outcome.failed = "vector_store") => StoreAnswer.raised

\* a review of one candidate out of the two the store returned, a third row
\* lying below the floor
C17_Witness ==
    /\ sr_pc = "returned"
    /\ TierIs("review")
    /\ sr_query.top_k = 1
    /\ Len(sr_outcome.value.top_matches) = 1
    /\ Len(StoreAnswer.entries) = 2
    /\ \E k \in 1..Len(sr_env.rows) :
          /\ sr_env.rows[k].embedded
          /\ sr_env.rows[k].similarity < sr_settings.RAG_MATCH_MIN_THRESHOLD

(***************************************************************************)
(* SpecSimilar: one find_similar call on a RAGSearcher                     *)
(***************************************************************************)

\* rows of stamps_rag as the search with the reference stamp's embedding sees
\* them
SimilarRowKinds(colnect_id) ==
    { Row(colnect_id, TRUE, sim) : sim \in {50, 90, 100} }
    \cup { Row(colnect_id, FALSE, 0) }

SimilarTables ==
    UNION { { t \in [1..n -> UNION {SimilarRowKinds(k) : k \in 1..n}] :
                \A k \in 1..n : t[k].colnect_id = k } : n \in 0..MaxRows }

\* the reference stamp is at distance 0 from itself; 0 is the id of no row
SeedsOf(rows) ==
    {0} \cup { k \in 1..Len(rows) : rows[k].embedded => rows[k].similarity = 100 }

InitSimilar ==
    /\ ClassifyIdle
    /\ DetectIdle
    /\ IdentifyIdle
    /\ ThreadsIdle
    /\ AsyncIdle
    /\ RepeatIdle
    /\ PolygonIdle
    /\ AuxIdle
    /\ \E w \in SearchWorlds, rows \in SimilarTables :
          /\ sr_searcher = RAGSearcherNew(w.embedder, w.supabase)
          /\ sr_settings = w.settings
          /\ sr_env = Env(w.provider, w.rpc, w.table_query, rows)
    /\ sr_pc = "off"
    /\ sr_query = NoQuery
    /\ sr_outcome = NoOutcome
    /\ fs_pc = "idle"
    /\ fs_query = NoSimilarQuery
    /\ fs_outcome = NoSimilarOutcome

SimilarDone(outcome) ==
    /\ sr_searcher' = outcome.searcher
    /\ fs_outcome' = outcome
    /\ fs_pc' = IF outcome.error = "none" THEN "returned" ELSE "raised"

\* one find_similar(colnect_id, top_k, exclude_self) call, start to return or
\* raise
FindSimilar ==
    /\ fs_pc = "idle"
    /\ \E colnect_id \in SeedsOf(sr_env.rows), top_k \in 1..MaxTopK,
          exclude_self \in BOOLEAN :
          /\ fs_query' = [colnect_id |-> colnect_id, top_k |-> top_k,
                          exclude_self |-> exclude_self]
          /\ SimilarDone(find_similar(sr_searcher, sr_settings, sr_env, colnect_id,
                                      top_k, exclude_self))
    /\ UNCHANGED <<sr_settings, sr_env, sr_pc, sr_query, sr_outcome,
                   cl_vars, dp_vars, id_vars, th_vars, as_vars, rp_vars, pg_vars, aux_vars>>

NextSimilar == FindSimilar

SpecSimilar == InitSimilar /\ [][NextSimilar]_vars

\* what the store answers to the search of the current find_similar call
SimilarAnswer ==
    SupabaseSearch(sr_env, fs_query.top_k + (IF fs_query.exclude_self THEN 1 ELSE 0), 0)

\* the store's pairs other than the reference stamp's
WithoutSeed ==
    SelectSeq(SimilarAnswer.entries,
              LAMBDA e : ~(fs_query.exclude_self /\ e.entry.colnect_id = fs_query.colnect_id))

\* C18: find_similar with exclude_self never returns the reference stamp,
\* returns at most top_k results, keeps the store's order for the others and
\* numbers them 1..n without gaps after the exclusion; without exclude_self
\* the reference stamp may appear and at most top_k results are returned.
C18_SeedExcluded ==
    fs_pc = "returned" =>
        /\ Len(fs_outcome.value) = Min(fs_query.top_k, Len(WithoutSeed))
        /\ \A k \in 1..Len(fs_outcome.value) :
              /\ fs_outcome.value[k].rank = k
              /\ fs_outcome.value[k].entry = WithoutSeed[k].entry
              /\ fs_outcome.value[k].similarity = WithoutSeed[k].similarity
              /\ fs_query.exclude_self =>
                    fs_outcome.value[k].entry.colnect_id # fs_query.colnect_id

\* the reference stamp stood first in the store's list of three and two
\* others are returned as numbers 1 and 2
C18_Witness ==
    /\ fs_pc = "returned"
    /\ fs_query.exclude_self
    /\ fs_query.top_k = 2
    /\ Len(SimilarAnswer.entries) = 3
    /\ SimilarAnswer.entries[1].entry.colnect_id = fs_query.colnect_id
    /\ Len(fs_outcome.value) = 2
    /\ fs_outcome.value[2].rank = 2

\* C19: find_similar reports every failure as SearchError: an unknown
\* reference id, a reference stamp without embedding and a failure of the
\* vector-store search all end the call with SearchError and no result list.
\* Stated for the calls whose searcher has its two handles.  Violated: the
\* store's search is called outside any try, so its SupabaseError reaches the
\* caller as it is.
C19_EveryFailureIsSearchError ==
    /\ (fs_pc = "raised" /\ sr_searcher._initialized)
       => fs_outcome.error = "SearchError" /\ fs_outcome.value = <<>>
    /\ (fs_pc \in {"returned", "raised"}
        /\ (get_by_colnect_id(sr_env, fs_query.colnect_id).none
            \/ ~get_by_colnect_id(sr_env, fs_query.colnect_id).embedded
            \/ SimilarAnswer.raised))
       => fs_pc = "raised"

(***************************************************************************)
(* SpecPolygon: one PolygonDetector.detect call                            *)
(***************************************************************************)

\* the vertices approxPolyDP leaves, by their number
VertexLists ==
    [n \in 2..5 |-> SubSeq(<<<<100, 100>>, <<250, 100>>, <<250, 280>>, <<100, 280>>,
                             <<60, 190>>>>, 1, n)]

\* A quadrilateral and a triangle that pass the default filters, and the
\* quadrilateral with one measure changed: the area below, at and above the
\* limits of a 1000 x 1000 image, 2 and 5 vertices, not convex, and the
\* bounding box below, at and above the aspect limits or of height 0.
PolygonContourKinds ==
    { Contour(27000, VertexLists[4], TRUE, <<100, 100, 150, 180>>, GoodCrop),
      Contour(13000, VertexLists[3], TRUE, <<100, 100, 150, 180>>, TriangleCrop) }
    \cup { Contour(a, VertexLists[4], TRUE, <<100, 100, 150, 180>>, GoodCrop) :
             a \in {999, 1000, 150000, 150001} }
    \cup { Contour(27000, VertexLists[n], TRUE, <<100, 100, 150, 180>>, GoodCrop) :
             n \in {2, 5} }
    \cup { Contour(27000, VertexLists[4], FALSE, <<100, 100, 150, 180>>, GoodCrop) }
    \cup { Contour(27000, VertexLists[4], TRUE, <<100, 100, wh[1], wh[2]>>, GoodCrop) :
             wh \in {<<29, 100>>, <<30, 100>>, <<300, 100>>, <<301, 100>>, <<50, 0>>} }

PolygonImages ==
    { [height |-> 1000, width |-> 1000, contours |-> cs, boxes |-> <<>>,
       yolo_raises |-> FALSE] : cs \in SeqsUpTo(PolygonContourKinds, MaxContours) }

\* the default limits, quadrilaterals only, and limits wider than 3 to 4
DetectionConfigs ==
    { DetectionConfigOf(v[1], v[2], convex) :
        v \in {<<MinVertices, MaxVertices>>, <<4, 4>>, <<3, 5>>, <<2, 4>>},
        convex \in BOOLEAN }

InitPolygon ==
    /\ ClassifyIdle
    /\ DetectIdle
    /\ SearchIdle
    /\ IdentifyIdle
    /\ ThreadsIdle
    /\ AsyncIdle
    /\ RepeatIdle
    /\ SimilarIdle
    /\ AuxIdle
    /\ pg_config \in DetectionConfigs
    /\ pg_image = NoImage
    /\ pg_result = <<>>
    /\ pg_pc = "idle"

\* one detect(image) call, start to return or raise
Detect ==
    /\ pg_pc = "idle"
    /\ \E image \in PolygonImages :
          /\ pg_image' = image
          /\ IF PolygonRaises(pg_config, image)
             THEN pg_pc' = "raised" /\ pg_result' = <<>>
             ELSE pg_pc' = "returned" /\ pg_result' = PolygonDetect(pg_config, image)
    /\ UNCHANGED <<pg_config, cl_vars, dp_vars, sr_vars, id_vars, th_vars, as_vars,
                   rp_vars, fs_vars, aux_vars>>

NextPolygon == Detect

SpecPolygon == InitPolygon /\ [][NextPolygon]_vars

\* the contour passes the four configured filters
PassesFilters(config, contour, image_area) ==
    /\ Len(contour.verts) >= config.min_vertices
    /\ Len(contour.verts) <= config.max_vertices
    /\ 1000 * contour.area >= config.min_area_ratio * image_area
    /\ 1000 * contour.area <= config.max_area_ratio * image_area
    /\ config.require_convex => contour.convex
    /\ IF contour.box[4] > 0
       THEN /\ 10 * contour.box[3] >= config.aspect_ratio_min * contour.box[4]
            /\ 10 * contour.box[3] <= config.aspect_ratio_max * contour.box[4]
       ELSE config.aspect_ratio_min <= 0

\* the contours of the current image that pass the filters, in their order
Passing ==
    SelectSeq(pg_image.contours,
              LAMBDA c : PassesFilters(pg_config, c, pg_image.height * pg_image.width))

\* C20: every candidate returned by PolygonDetector.detect comes from a
\* contour that passes the configured filters (vertex count, area, convexity
\* when required, aspect ratio of the bounding box), has 3 or 4 vertices, and
\* is tagged "triangle" exactly when it has 3 and "quadrilateral" exactly when
\* it has 4; the contours that fail a filter are skipped and never make the
\* call raise, and an image without contours yields the empty list.
C20_CandidatesPassFilters ==
    /\ pg_pc = "returned" =>
          /\ Len(pg_result) = Len(Passing)
          /\ \A k \in 1..Len(pg_result) :
                /\ pg_result[k].vertices.points = Passing[k].verts
                /\ pg_result[k].area = Passing[k].area
                /\ pg_result[k].bounding_box = Passing[k].box
                /\ Len(pg_result[k].vertices.points) \in {3, 4}
                /\ pg_result[k].shape_type = "triangle"
                   <=> Len(pg_result[k].vertices.points) = 3
                /\ pg_result[k].shape_type = "quadrilateral"
                   <=> Len(pg_result[k].vertices.points) = 4
    /\ pg_pc = "raised" =>
          \E k \in 1..Len(Passing) : Len(Passing[k].verts) \notin {3, 4}
    /\ (pg_pc \in {"returned", "raised"} /\ pg_image.contours = <<>>) =>
          pg_pc = "returned" /\ pg_result = <<>>

\* a triangle is returned and the other contour of the image, which is not
\* convex, is skipped
C20_Witness ==
    /\ pg_pc = "returned"
    /\ Len(pg_image.contours) = 2
    /\ ~pg_image.contours[1].convex
    /\ pg_config.require_convex
    /\ Len(pg_result) = 1
    /\ pg_result[1].shape_type = "triangle"

(***************************************************************************)
(* Spec, continued: the reason code and the details of a stamp's verdict   *)
(***************************************************************************)

\* the verdict a stamp carries has the four sub-scores as its details and names
\* the first largest of them when it passed, the first smallest when it did not
ReasonFromScores(passed, reason, details) ==
    /\ DOMAIN details = Range(ScoreNames)
    /\ reason = IF passed THEN ArgMax(details) ELSE ArgMin(details)

\* C21: the primary reason code of a verdict is the name of the highest-scoring
\* sub-heuristic when the crop is accepted and of the lowest-scoring one when
\* it is rejected, and its details have exactly the four sub-score keys, for
\* the verdict carried by every DetectedStamp that detect_stamps returns.
C21_ReasonCodeOfEveryStamp ==
    dp_pc = "returned" =>
        \A s \in Range(dp_result.accepted \o dp_result.rejected) :
            ReasonFromScores(s.classifier_passed, s.classifier_reason,
                             s.classifier_details)

\* the part that holds: the stamps of Stage 1B
GeometricReasonFromScores ==
    dp_pc = "returned" =>
        \A s \in Range(Geometric) :
            ReasonFromScores(s.classifier_passed, s.classifier_reason,
                             s.classifier_details)

(***************************************************************************)
(* SpecEmbed: EmbeddingGenerator.embed_batch                               *)
(***************************************************************************)

\* MAX_BATCH_SIZE is 2048 in the source; the model splits after this many
\* texts so that a call of MaxTexts texts spans more than one batch.
MAX_BATCH_SIZE == 2
MaxTexts == 3

\* a text is its sequence of characters
TextKinds ==
    { <<>>, <<" ">>, <<"a">>, <<" ", "a", " ">>, <<"b">>, <<"a", " ", "b">> }

\* str.strip(): without the leading and the trailing whitespace
RECURSIVE lstrip(_)
lstrip(text) ==
    IF text # <<>> /\ Head(text) = " " THEN lstrip(Tail(text)) ELSE text

RECURSIVE rstrip(_)
rstrip(text) ==
    IF text # <<>> /\ text[Len(text)] = " "
    THEN rstrip(SubSeq(text, 1, Len(text) - 1))
    ELSE text

strip(text) == rstrip(lstrip(text))

\* the vector the provider computes for one input text
Embedding(text) == <<text>>

\* valid_items: (index, stripped text) of the texts that are not empty after
\* stripping, in input order
RECURSIVE ValidItems(_, _)
ValidItems(texts, i) ==
    IF i > Len(texts) THEN <<>>
    ELSE IF texts[i] # <<>> /\ strip(texts[i]) # <<>>
    THEN <<<<i, strip(texts[i])>>>> \o ValidItems(texts, i + 1)
    ELSE ValidItems(texts, i + 1)

\* mutant: the embedding is filed under its position in the batch
OriginalIdxInBatch(batch, j) == j

\* original_idx = batch[j][0]
OriginalIdx(batch, j) == batch[j][1]

\* the inner loop over response.data: all_embeddings[original_idx] = embedding
RECURSIVE StoreEmbeddings(_, _, _, _)
StoreEmbeddings(all_embeddings, batch, data, j) ==
    IF j > Len(data) THEN all_embeddings
    ELSE StoreEmbeddings((OriginalIdx(batch, j) :> data[j]) @@ all_embeddings,
                         batch, data, j + 1)

\* client.embeddings.create(input=batch_texts): one vector per input, in order
EmbeddingsCreate(batch) == [j \in 1..Len(batch) |-> Embedding(batch[j][2])]

\* the while loop over the batches; the call numbered fail_at raises, and the
\* except clause turns that into EmbeddingError
RECURSIVE EmbedBatches(_, _, _, _, _)
EmbedBatches(valid_items, batch_start, all_embeddings, call, fail_at) ==
    IF ~(batch_start < Len(valid_items))
    THEN [raised |-> FALSE, error |-> "none", all_embeddings |-> all_embeddings]
    ELSE IF call = fail_at
    THEN [raised |-> TRUE, error |-> "EmbeddingError", all_embeddings |-> all_embeddings]
    ELSE EmbedBatches(valid_items,
                      Min(batch_start + MAX_BATCH_SIZE, Len(valid_items)),
                      StoreEmbeddings(all_embeddings,
                                      SubSeq(valid_items, batch_start + 1,
                                             Min(batch_start + MAX_BATCH_SIZE,
                                                 Len(valid_items))),
                                      EmbeddingsCreate(
                                          SubSeq(valid_items, batch_start + 1,
                                                 Min(batch_start + MAX_BATCH_SIZE,
                                                     Len(valid_items)))),
                                      1),
                      call + 1, fail_at)

\* the result list: the stored embedding of each index, [] for the others
EmbedResult(texts, done) ==
    IF done.raised THEN [raised |-> TRUE, error |-> done.error, value |-> <<>>]
    ELSE [raised |-> FALSE, error |-> "none",
          value |-> [i \in 1..Len(texts) |->
                        IF i \in DOMAIN done.all_embeddings
                        THEN done.all_embeddings[i] ELSE <<>>]]

embed_batch(texts, fail_at) ==
    IF texts = <<>> THEN [raised |-> FALSE, error |-> "none", value |-> <<>>]
    ELSE IF ValidItems(texts, 1) = <<>>
    THEN [raised |-> FALSE, error |-> "none", value |-> [i \in 1..Len(texts) |-> <<>>]]
    ELSE EmbedResult(texts, EmbedBatches(ValidItems(texts, 1), 0, <<>>, 1, fail_at))

eb_others == <<core_vars, sm_vars, br_vars, op_vars, sc_vars>>

InitEmbed ==
    /\ CoreIdle
    /\ QueueIdle
    /\ GotoIdle
    /\ OrderIdle
    /\ ScrapeIdle
    /\ eb_texts = <<>>
    /\ eb_provider = 0
    /\ eb_result = [error |-> "none", value |-> <<>>]
    /\ eb_pc = "idle"

\* one embed_batch(texts) call, start to return or raise
EmbedBatch ==
    /\ eb_pc = "idle"
    /\ \E texts \in SeqsUpTo(TextKinds, MaxTexts), fail_at \in 0..MaxTexts :
          /\ eb_texts' = texts
          /\ eb_provider' = fail_at
          /\ eb_result' = [error |-> embed_batch(texts, fail_at).error,
                            value |-> embed_batch(texts, fail_at).value]
          /\ eb_pc' = IF embed_batch(texts, fail_at).raised THEN "raised" ELSE "returned"
    /\ UNCHANGED eb_others

\* the caller takes the result
EmbedNext ==
    /\ eb_pc \in {"returned", "raised"}
    /\ eb_pc' = "idle"
    /\ eb_texts' = <<>>
    /\ eb_provider' = 0
    /\ eb_result' = [error |-> "none", value |-> <<>>]
    /\ UNCHANGED eb_others

NextEmbed ==
    \/ EmbedBatch
    \/ EmbedNext

SpecEmbed == InitEmbed /\ [][NextEmbed]_vars

\* the text is empty or whitespace only
IsBlank(text) == \A k \in 1..Len(text) : text[k] = " "

\* the number of provider calls a complete run makes
BatchesOf(texts) ==
    (Cardinality({i \in 1..Len(texts) : ~IsBlank(texts[i])}) + MAX_BATCH_SIZE - 1)
        \div MAX_BATCH_SIZE

MaxQueueCalls == 4

\* a DetectionFeedback as the SessionManager reads it
Feedback(passed, searched, found, crop) ==
    [stage_1b_passed |-> passed, stage_2_searched |-> searched,
     rag_match_found |-> found, cropped_image |-> crop]

\* statuses.count(s) of ScanSession.summary
CountStatus(detections, s) ==
    Cardinality({k \in 1..Len(detections) : status(detections[k]) = s})

\* mutant: a detection is counted by its flags, whatever the other flags are
summaryByFlags(detections) ==
    [total_shapes |-> Len(detections),
     rejected |-> Cardinality({k \in 1..Len(detections) :
                                  ~detections[k].stage_1b_passed}),
     identified |-> Cardinality({k \in 1..Len(detections) :
                                    detections[k].rag_match_found}),
     no_match |-> Cardinality({k \in 1..Len(detections) :
                                  ~detections[k].rag_match_found}),
     pending |-> Cardinality({k \in 1..Len(detections) :
                                 ~detections[k].stage_2_searched})]

\* ScanSession.summary
summary(detections) ==
    [total_shapes |-> Len(detections),
     rejected |-> CountStatus(detections, "rejected"),
     identified |-> CountStatus(detections, "identified"),
     no_match |-> CountStatus(detections, "no_match"),
     pending |-> CountStatus(detections, "pending")]

\* _build_session_json: the summary and the status of each detection
_build_session_json(detections) ==
    [summary |-> summary(detections),
     detections |-> [k \in 1..Len(detections) |-> status(detections[k])]]

\* session_id of the n-th ScanSession (time stamp and uuid: never repeated),
\* and f"{i+1:03d}"
SessionIds == <<"s1", "s2", "s3", "s4", "s5", "s6">>
IndexNames == <<"001", "002", "003", "004", "005", "006", "007", "008", "009">>

\* a file: its directory under output_dir, the parts of its stem (joined by
\* "_" in the file's name) and its extension
FilePath(dir, name, ext) == [dir |-> dir, name |-> name, ext |-> ext]

NoPath == FilePath("", <<>>, "")

\* missed_dir / f"{session.session_id}_{i+1:03d}.png"
MissedPath(session_id, i) ==
    FilePath("missed_stamps", <<session_id, IndexNames[i]>>, "png")

\* the files save_session writes to missed_stamps/
MissedFiles(session_id, detections) ==
    { MissedPath(session_id, m.index) : m \in Range(MissedFrom(detections, 1)) }

SaveSessionFiles(manager, files, session_id, detections) ==
    IF manager.save_crops THEN files \cup MissedFiles(session_id, detections)
    ELSE files

\* a colnect id is its sequence of characters;
\* clean_id = colnect_id.replace("/", "_").replace("\\", "_")
ColnectIds == { <<"9">>, <<"1", "/", "2">> }

CleanId(colnect_id) ==
    [k \in 1..Len(colnect_id) |->
        IF colnect_id[k] \in {"/", "\\"} THEN "_" ELSE colnect_id[k]]

\* resolved_dir / f"{stamp_path.stem}_resolved_{clean_id}.png"
ResolvedPath(stamp_path, colnect_id) ==
    FilePath("resolved", stamp_path.name \o <<"resolved">> \o CleanId(colnect_id), "png")

\* resolved_dir / f"{stamp_path.stem}_resolution.json"
RecordPath(stamp_path) ==
    FilePath("resolved", stamp_path.name \o <<"resolution">>, "json")

\* skipped_dir / stamp_path.name
SkippedPath(stamp_path) == FilePath("skipped", stamp_path.name, stamp_path.ext)

\* mutant: the file is copied, not moved
RenamedKeepsOld(files, old, new) == files \cup {new}

\* Path.rename(new)
Renamed(files, old, new) == (files \ {old}) \cup {new}

CallOutcome(raised, files, value) == [raised |-> raised, files |-> files, value |-> value]

resolve_missed_stamp(files, stamp_path, colnect_id) ==
    IF stamp_path \notin files THEN CallOutcome(TRUE, files, NoPath)
    ELSE CallOutcome(FALSE,
                     Renamed(files, stamp_path, ResolvedPath(stamp_path, colnect_id))
                         \cup {RecordPath(stamp_path)},
                     ResolvedPath(stamp_path, colnect_id))

skip_missed_stamp(files, stamp_path) ==
    IF stamp_path \notin files THEN CallOutcome(TRUE, files, NoPath)
    ELSE CallOutcome(FALSE, Renamed(files, stamp_path, SkippedPath(stamp_path)), NoPath)

\* get_missed_stamps: the queue
Queue(files) == { f \in files : f.dir = "missed_stamps" /\ f.ext = "png" }

\* the detections of the sessions saved: nothing found, one missed stamp, a
\* missed stamp without a crop, a rejected shape and two missed stamps, and
\* one detection for each combination of the three flags
SessionKinds ==
    { <<>>,
      <<Feedback(TRUE, TRUE, FALSE, GoodCrop)>>,
      <<Feedback(TRUE, TRUE, FALSE, NoneCrop), Feedback(TRUE, TRUE, TRUE, GoodCrop)>>,
      <<Feedback(FALSE, FALSE, FALSE, BlankCrop), Feedback(TRUE, TRUE, FALSE, GoodCrop),
        Feedback(TRUE, TRUE, FALSE, TriangleCrop)>>,
      <<Feedback(FALSE, FALSE, FALSE, GoodCrop), Feedback(FALSE, FALSE, TRUE, GoodCrop),
        Feedback(FALSE, TRUE, FALSE, GoodCrop), Feedback(FALSE, TRUE, TRUE, GoodCrop),
        Feedback(TRUE, FALSE, FALSE, GoodCrop), Feedback(TRUE, FALSE, TRUE, GoodCrop),
        Feedback(TRUE, TRUE, FALSE, GoodCrop), Feedback(TRUE, TRUE, TRUE, GoodCrop)>> }

\* the paths a caller passes: a place in the queue, whether a file is there
\* or not, and a file that resolve_missed_stamp returned before
StampPaths ==
    Queue(sm_files)
    \cup { MissedPath(SessionIds[n], 1) : n \in 1..Len(sm_sessions) }
    \cup { f \in sm_files : f.dir = "resolved" /\ f.ext = "png" /\ Len(f.name) <= 5 }

sm_others == <<core_vars, eb_vars, br_vars, op_vars, sc_vars>>

InitQueue ==
    /\ CoreIdle
    /\ EmbedIdle
    /\ GotoIdle
    /\ OrderIdle
    /\ ScrapeIdle
    /\ sm_manager \in [save_crops : BOOLEAN]
    /\ sm_sessions = <<>>
    /\ sm_files = {}
    /\ sm_json = <<>>
    /\ sm_last = [op |-> "none", session |-> 0, path |-> NoPath, colnect_id |-> <<>>,
                  before |-> {}, raised |-> FALSE, value |-> NoPath]
    /\ sm_calls = 0

\* the state after save_session of session number n
Saved(n, detections) ==
    /\ sm_files' = SaveSessionFiles(sm_manager, sm_files, SessionIds[n], detections)
    /\ sm_json' = [k \in 1..Max(n, Len(sm_json)) |->
                      IF k = n THEN _build_session_json(detections) ELSE sm_json[k]]
    /\ sm_last' = [op |-> "save", session |-> n, path |-> NoPath, colnect_id |-> <<>>,
                   before |-> sm_files, raised |-> FALSE, value |-> NoPath]
    /\ sm_calls' = sm_calls + 1

\* save_session of a new ScanSession
SaveSession ==
    /\ sm_calls < MaxQueueCalls
    /\ \E detections \in SessionKinds :
          /\ sm_sessions' = Append(sm_sessions, [detections |-> detections, saves |-> 1])
          /\ Saved(Len(sm_sessions) + 1, detections)
    /\ UNCHANGED <<sm_manager, sm_others>>

\* save_session of a ScanSession that was saved before
SaveSessionAgain ==
    /\ sm_calls < MaxQueueCalls
    /\ \E n \in 1..Len(sm_sessions) :
          /\ sm_sessions' = [sm_sessions EXCEPT ![n].saves = 2]
          /\ Saved(n, sm_sessions[n].detections)
    /\ UNCHANGED <<sm_manager, sm_others>>

ResolveMissedStamp ==
    /\ sm_calls < MaxQueueCalls
    /\ \E stamp_path \in StampPaths, colnect_id \in ColnectIds :
          /\ sm_files' = resolve_missed_stamp(sm_files, stamp_path, colnect_id).files
          /\ sm_last' = [op |-> "resolve", session |-> 0, path |-> stamp_path,
                         colnect_id |-> colnect_id, before |-> sm_files,
                         raised |-> resolve_missed_stamp(sm_files, stamp_path,
                                                         colnect_id).raised,
                         value |-> resolve_missed_stamp(sm_files, stamp_path,
                                                        colnect_id).value]
    /\ sm_calls' = sm_calls + 1
    /\ UNCHANGED <<sm_manager, sm_sessions, sm_json, sm_others>>

SkipMissedStamp ==
    /\ sm_calls < MaxQueueCalls
    /\ \E stamp_path \in StampPaths :
          /\ sm_files' = skip_missed_stamp(sm_files, stamp_path).files
          /\ sm_last' = [op |-> "skip", session |-> 0, path |-> stamp_path,
                         colnect_id |-> <<>>, before |-> sm_files,
                         raised |-> skip_missed_stamp(sm_files, stamp_path).raised,
                         value |-> NoPath]
    /\ sm_calls' = sm_calls + 1
    /\ UNCHANGED <<sm_manager, sm_sessions, sm_json, sm_others>>

NextQueue ==
    \/ SaveSession
    \/ SaveSessionAgain
    \/ ResolveMissedStamp
    \/ SkipMissedStamp

SpecQueue == InitQueue /\ [][NextQueue]_vars

\* the missed stamp a file holds: the session and the index its name starts with
StampOf(f) == SubSeq(f.name, 1, 2)

\* the stamps with a file in resolved/ or skipped/
Settled(files) ==
    { StampOf(f) : f \in { g \in files : g.dir \in {"resolved", "skipped"} /\ g.ext = "png" } }

\* the name holds the characters of id, one after the other
Contains(name, id) ==
    \E k \in 0..(Len(name) - Len(id)) : SubSeq(name, k + 1, k + Len(id)) = id

\* the detections of a session that belong in the queue
NoMatchWithCrop(detections) ==
    { i \in 1..Len(detections) :
        /\ status(detections[i]) = "no_match"
        /\ ~detections[i].cropped_image.none }

StatusByPrecedence(passed, searched, found) ==
    CASE ~passed -> "rejected"
      [] passed /\ ~searched -> "pending"
      [] passed /\ searched /\ found -> "identified"
      [] passed /\ searched /\ ~found -> "no_match"

\* C24: DetectionFeedback.status is a total function of three flags with a
\* fixed precedence: "rejected" whenever stage_1b_passed is false, else
\* "pending" when stage_2_searched is false, else "identified" when
\* rag_match_found is true, else "no_match"; ScanSession.summary counts each
\* detection in exactly one of the four status counters, so the four counters
\* sum to total_shapes.
C24_StatusAndSummary ==
    \A n \in 1..Len(sm_json) :
        /\ Len(sm_json[n].detections) = Len(sm_sessions[n].detections)
        /\ \A k \in 1..Len(sm_json[n].detections) :
              sm_json[n].detections[k]
                  = StatusByPrecedence(sm_sessions[n].detections[k].stage_1b_passed,
                                       sm_sessions[n].detections[k].stage_2_searched,
                                       sm_sessions[n].detections[k].rag_match_found)
        /\ \A st \in {"rejected", "pending", "identified", "no_match"} :
              sm_json[n].summary[st]
                  = Cardinality({k \in 1..Len(sm_json[n].detections) :
                                    sm_json[n].detections[k] = st})
        /\ sm_json[n].summary.total_shapes = Len(sm_sessions[n].detections)
        /\ sm_json[n].summary.rejected + sm_json[n].summary.pending
             + sm_json[n].summary.identified + sm_json[n].summary.no_match
             = sm_json[n].summary.total_shapes

\* a saved session with a detection for each combination of the flags
C24_Witness ==
    \E n \in 1..Len(sm_json) :
        /\ sm_json[n].summary.total_shapes = 8
        /\ sm_json[n].summary.rejected = 4
        /\ sm_json[n].summary.pending = 2
        /\ sm_json[n].summary.identified = 1
        /\ sm_json[n].summary.no_match = 1

(***************************************************************************)
(* SpecGoto: BrowserManager.goto, one page.goto call per step              *)
(***************************************************************************)

MaxRetry == 2

\* what one page.goto call can give: a response that is ok, a 404, another
\* status that is not ok, no response, a Playwright TimeoutError, or another
\* exception
Responses == {"ok", "404", "http_error", "none", "timeout", "error"}

\* "timeout" in str(e).lower(): Playwright's TimeoutError says "Timeout ...ms
\* exceeded"; the two ScrapingErrors raised in the try block quote the url
MentionsTimeout(response, url) ==
    CASE response = "timeout" -> TRUE
      [] response \in {"none", "http_error"} -> url.mentions_timeout
      [] OTHER -> FALSE

br_others == <<core_vars, eb_vars, sm_vars, op_vars, sc_vars>>

InitGoto ==
    /\ CoreIdle
    /\ EmbedIdle
    /\ QueueIdle
    /\ OrderIdle
    /\ ScrapeIdle
    /\ br_manager \in [retry_count : -1..MaxRetry]
    /\ br_url = [mentions_timeout |-> FALSE]
    /\ br_attempt = 0
    /\ br_history = <<>>
    /\ br_pc = "idle"
    /\ br_error = "none"

\* goto(page, url) is called: last_error = None, the loop starts
GotoCall ==
    /\ br_pc = "idle"
    /\ br_url' \in [mentions_timeout : BOOLEAN]
    /\ br_attempt' = 0
    /\ br_history' = <<>>
    /\ br_pc' = "loop"
    /\ br_error' = "none"
    /\ UNCHANGED <<br_manager, br_others>>

\* one pass of the for loop: page.goto and what the try block and its except
\* clauses make of the response
GotoAttempt ==
    /\ br_pc = "loop"
    /\ br_attempt < br_manager.retry_count + 1
    /\ \E response \in Responses :
          /\ br_history' = Append(br_history, response)
          /\ IF response = "ok"
             THEN br_pc' = "returned" /\ br_error' = "none" /\ br_attempt' = br_attempt
             ELSE IF response = "404"
             THEN /\ br_pc' = "raised"
                  /\ br_error' = "PageNotFoundError"
                  /\ br_attempt' = br_attempt
             ELSE IF MentionsTimeout(response, br_url)
                     /\ br_attempt = br_manager.retry_count
             THEN /\ br_pc' = "raised"
                  /\ br_error' = "PageTimeoutError"
                  /\ br_attempt' = br_attempt
             ELSE /\ br_pc' = "loop"
                  /\ br_error' = "none"
                  /\ br_attempt' = br_attempt + 1
    /\ UNCHANGED <<br_manager, br_url, br_others>>

\* the loop is over: raise ScrapingError(...) from last_error
GotoExhausted ==
    /\ br_pc = "loop"
    /\ ~(br_attempt < br_manager.retry_count + 1)
    /\ br_pc' = "raised"
    /\ br_error' = "ScrapingError"
    /\ UNCHANGED <<br_manager, br_url, br_attempt, br_history, br_others>>

\* the caller goes on to the next url
GotoNext ==
    /\ br_pc \in {"returned", "raised"}
    /\ br_pc' = "idle"
    /\ br_attempt' = 0
    /\ br_history' = <<>>
    /\ br_error' = "none"
    /\ UNCHANGED <<br_manager, br_url, br_others>>

NextGoto ==
    \/ GotoCall
    \/ GotoAttempt
    \/ GotoExhausted
    \/ GotoNext

SpecGoto == InitGoto /\ [][NextGoto]_vars

\* the navigation attempts of the current call before the last one
Earlier == SubSeq(br_history, 1, Len(br_history) - 1)

\* the part of C25 about the number of attempts, the first OK response and 404
GotoAttemptsAsStated ==
    /\ Len(br_history) <= Max(br_manager.retry_count + 1, 0)
    /\ \A k \in 1..Len(Earlier) : Earlier[k] \notin {"ok", "404"}
    /\ br_pc = "returned" <=> (br_history # <<>> /\ br_history[Len(br_history)] = "ok")
    /\ (br_history # <<>> /\ br_history[Len(br_history)] = "404")
          => br_pc = "raised" /\ br_error = "PageNotFoundError"

\* C25: goto makes at most retry_count + 1 navigation attempts: it returns
\* after the first attempt whose response is OK and makes no further attempts;
\* a 404 response raises PageNotFoundError immediately and is never retried;
\* when every attempt fails it raises PageTimeoutError if the last failure was
\* a timeout and ScrapingError otherwise, never returning normally.
C25_GotoRetries ==
    /\ GotoAttemptsAsStated
    /\ (/\ br_pc \in {"returned", "raised"}
        /\ \A k \in 1..Len(br_history) : br_history[k] \notin {"ok", "404"})
          => /\ br_pc = "raised"
             /\ Len(br_history) = Max(br_manager.retry_count + 1, 0)
             /\ br_error = IF br_history # <<>> /\ br_history[Len(br_history)] = "timeout"
                           THEN "PageTimeoutError" ELSE "ScrapingError"

\* the same for the urls that do not contain the word timeout
GotoAsStatedOtherwise == br_url.mentions_timeout \/ C25_GotoRetries

(***************************************************************************)
(* Spec, continued: the detector and its model over a sequence of calls    *)
(***************************************************************************)

\* C26: once a YOLODetector has loaded its model, no later detect or
\* detect_raw call on it loads a model again; over any sequence of
\* detect_stamps calls a DetectionPipeline constructs at most one
\* YOLODetector, and none if fallback is disabled or was never needed.
C26_LoadedAndBuiltOnce ==
    [][/\ dp_pipeline'.yolo_built <= 1
       /\ ~dp_pipeline'.yolo_detector.none => dp_pipeline'.yolo_detector.loads <= 1
       /\ (~dp_pipeline.yolo_detector.none /\ dp_pipeline.yolo_detector._model # "None")
             => dp_pipeline'.yolo_detector = dp_pipeline.yolo_detector
       /\ dp_pipeline'.yolo_built > dp_pipeline.yolo_built
             => /\ dp_pipeline.config.enable_yolo_fallback
                /\ dp_flag'
                /\ dp_result'.fallback_ran
                /\ dp_result'.stage1b_accepted = 0]_vars

\* a second call needed the fallback, on a detector that had loaded its model
C26_Witness ==
    /\ dp_pc = "returned"
    /\ dp_calls = 2
    /\ dp_result.fallback_ran
    /\ Len(dp_result.accepted) > 0
    /\ dp_pipeline.yolo_built = 1
    /\ dp_pipeline.yolo_detector.loads = 1

(***************************************************************************)
(* PolygonDetector._order_points (SpecOrder).                              *)
(* A point is <<x, y>>; pts is the (4, 2) array of _extract_quad_crop.     *)
(***************************************************************************)
MaxCoord == 2

GridPoints == (0..MaxCoord) \X (0..MaxCoord)

\* the index arrays of length n without a repeated index
IndexOrders(n) == {p \in [1..n -> 1..n] : \A i, j \in 1..n : i # j => p[i] # p[j]}

\* np.argsort(keys) with the default kind: an index array that puts keys in
\* ascending order; the default kind is not a stable sort, equal keys may come
\* out in either order
argsort(keys) == {p \in IndexOrders(Len(keys)) : \A i \in 1..(Len(keys) - 1) : keys[p[i]] <= keys[p[i + 1]]}

\* pts[:, c]
Column(pts, c) == [i \in 1..Len(pts) |-> pts[i][c]]

\* pts[p], indexing by an index array
TakeRows(pts, p) == [i \in 1..Len(p) |-> pts[p[i]]]

\* p[::-1]
Reversed(p) == [i \in 1..Len(p) |-> p[Len(p) + 1 - i]]

\* sorted_by_y = pts[np.argsort(pts[:, 1])]
SortedByY(pts) == {TakeRows(pts, p) : p \in argsort(Column(pts, 2))}

\* top = sorted_by_y[:2]; top = top[np.argsort(top[:, 0])]
TopPairs(sorted_by_y) == {TakeRows(SubSeq(sorted_by_y, 1, 2), p) : p \in argsort(Column(SubSeq(sorted_by_y, 1, 2), 1))}

\* bottom = sorted_by_y[2:]; bottom = bottom[np.argsort(bottom[:, 0])[::-1]]
BottomPairs(sorted_by_y) == {TakeRows(SubSeq(sorted_by_y, 3, 4), Reversed(p)) : p \in argsort(Column(SubSeq(sorted_by_y, 3, 4), 1))}

\* np.array([top[0], top[1], bottom[0], bottom[1]])
OrderedFrom(sorted_by_y) == {<<t[1], t[2], b[1], b[2]>> : t \in TopPairs(sorted_by_y), b \in BottomPairs(sorted_by_y)}

\* _order_points(pts): the arrays the call can return
_order_points(pts) == UNION {OrderedFrom(sorted_by_y) : sorted_by_y \in SortedByY(pts)}

op_others == <<core_vars, eb_vars, sm_vars, br_vars, sc_vars>>

InitOrder ==
    /\ CoreIdle
    /\ EmbedIdle
    /\ QueueIdle
    /\ GotoIdle
    /\ ScrapeIdle
    /\ op_pts = <<>>
    /\ op_result = <<>>
    /\ op_pc = "idle"

\* the (4, 2) arrays the next call can be given
OrderInputs == IF op_pc = "idle" THEN [1..4 -> GridPoints] ELSE {}

\* _extract_quad_crop reshapes the vertices to (4, 2) and calls _order_points
OrderCall(pts) ==
    /\ op_pc = "idle"
    /\ op_pts' = pts
    /\ op_result' = <<>>
    /\ op_pc' = "called"
    /\ UNCHANGED op_others

\* what the call in progress can return
OrderReturns == IF op_pc = "called" THEN _order_points(op_pts) ELSE {}

\* _order_points returns
OrderPoints(result) ==
    /\ op_pc = "called"
    /\ op_result' = result
    /\ op_pc' = "returned"
    /\ UNCHANGED <<op_pts, op_others>>

\* the next quadrilateral
OrderNext ==
    /\ op_pc = "returned"
    /\ op_pts' = <<>>
    /\ op_result' = <<>>
    /\ op_pc' = "idle"
    /\ UNCHANGED op_others

NextOrder ==
    \/ \E pts \in OrderInputs : OrderCall(pts)
    \/ \E result \in OrderReturns : OrderPoints(result)
    \/ OrderNext

SpecOrder == InitOrder /\ [][NextOrder]_vars

\* twice the signed area of the triangle o, a, b
Cross(o, a, b) == (a[1] - o[1]) * (b[2] - o[2]) - (a[2] - o[2]) * (b[1] - o[1])

\* the turn at corner i of the closed walk q[1], q[2], q[3], q[4], q[1]
Turn(q, i) == Cross(q[i], q[(i % 4) + 1], q[((i + 1) % 4) + 1])

\* the closed walk q is the boundary of a convex quadrilateral: it turns the
\* same way at every corner, so no two of its sides cross
WalksBoundary(q) == (\A i \in 1..4 : Turn(q, i) > 0) \/ (\A i \in 1..4 : Turn(q, i) < 0)

\* the result holds each input point exactly once
IsPermutation(pts, result) == \E p \in IndexOrders(4) : result = TakeRows(pts, p)

\* the first two have the two smallest y and ascending x, the last two the two
\* largest y and descending x
TopThenBottom(result) ==
    /\ \A i \in 1..2 : \A j \in 3..4 : result[i][2] <= result[j][2]
    /\ result[1][1] <= result[2][1]
    /\ result[3][1] >= result[4][1]

\* the part of C27 that every call meets: a permutation in the y groups
OrderPointsGroups == op_pc = "returned" => IsPermutation(op_pts, op_result) /\ TopThenBottom(op_result)

\* C27: _order_points returns a permutation of its four input points, the
\* first two with the two smallest y and x ascending, the last two with the
\* two largest y and x descending, and for a convex quadrilateral the
\* returned order walks the boundary without crossing.
C27_OrderPoints ==
    op_pc = "returned" =>
        /\ IsPermutation(op_pts, op_result)
        /\ TopThenBottom(op_result)
        /\ (WalksBoundary(op_pts) => WalksBoundary(op_result))

(***************************************************************************)
(* ColnectScraper.scrape_themes and its checkpoint file (SpecScrape).      *)
(* A theme is a number, a stamp url is a number, the catalog site is the   *)
(* fixed Listing below; what each stamp page gives is chosen page by page. *)
(***************************************************************************)
MaxScrapeCalls == 2
MaxLimit == 2

ThemeIds == {1, 2}

Urls == {1, 2, 3}

\* the listing pages of each theme: theme 1 has two pages, theme 2 has one
\* that lists two stamps of theme 1 again
Listing == <<  <<  <<1, 2>>, <<3>>  >>,  <<  <<2, 3>>  >>  >>

\* the themes argument of a call
ThemeLists == {<<1, 2>>, <<2, 1>>, <<1>>, <<2>>}

\* what scrape_stamp_page and the year check give for a url: a stamp, a stamp
\* of another year than year_filter, or an exception
StampOutcomes == {"ok", "year", "fail"}

\* get_theme_stamp_urls(page, theme_slug, page_number, ...): (stamp_urls, has_next)
get_theme_stamp_urls(theme, page_number) == IF page_number \in 1..Len(Listing[theme]) THEN [stamp_urls |-> Listing[theme][page_number], has_next |-> page_number < Len(Listing[theme])] ELSE [stamp_urls |-> <<>>, has_next |-> FALSE]

RECURSIVE AsList(_)
\* list(processed_urls): the members of the set in some order
AsList(set) == IF set = {} THEN <<>> ELSE LET least == CHOOSE u \in set : \A v \in set : u <= v IN <<least>> \o AsList(set \ {least})

\* set(checkpoint.processed_urls)
AsSet(list) == {list[i] : i \in 1..Len(list)}

NoCheckpoint == [exists |-> FALSE, theme |-> 0, page_number |-> 0, processed_urls |-> <<>>, total_scraped |-> 0]

\* ScrapeCheckpoint(theme=..., page_number=..., processed_urls=list(...), total_scraped=...)
\* written by save_checkpoint and read back by load_checkpoint
ScrapeCheckpoint(theme, page_number, processed_urls, total_scraped) == [exists |-> TRUE, theme |-> theme, page_number |-> page_number, processed_urls |-> AsList(processed_urls), total_scraped |-> total_scraped]

\* load_checkpoint(): the checkpoint of the file, None when there is no file
load_checkpoint(file) == IF file.exists THEN file ELSE NoCheckpoint

\* themes.index(theme); 0 stands for the ValueError
ThemeIndex(themes, theme) == IF \E i \in 1..Len(themes) : themes[i] = theme THEN CHOOSE i \in 1..Len(themes) : themes[i] = theme /\ \A j \in 1..(i - 1) : themes[j] # theme ELSE 0

\* the checkpoint is used: resume is set, a checkpoint was loaded and its
\* theme is in the theme list
Resumes(themes, resume, checkpoint) == resume /\ checkpoint.exists /\ ThemeIndex(themes, checkpoint.theme) # 0

NoRun == [themes |-> <<>>, resume |-> FALSE, limit |-> 0, dry_run |-> FALSE, abort |-> FALSE,
          loaded |-> NoCheckpoint, theme_idx |-> 0, page_number |-> 0, processed_urls |-> {},
          total_scraped |-> 0, scraped |-> <<>>, saved |-> <<>>, last |-> "none", ended |-> "none",
          done_theme |-> 0, done_page |-> 0]

\* the locals of scrape_themes when the theme loop starts
StartRun(themes, resume, limit, dry_run, abort, file) ==
    [themes |-> themes, resume |-> resume, limit |-> limit, dry_run |-> dry_run, abort |-> abort,
     loaded |-> IF resume THEN load_checkpoint(file) ELSE NoCheckpoint,
     theme_idx |-> IF Resumes(themes, resume, load_checkpoint(file)) THEN ThemeIndex(themes, file.theme) ELSE 1,
     page_number |-> IF Resumes(themes, resume, load_checkpoint(file)) THEN file.page_number ELSE 1,
     processed_urls |-> IF Resumes(themes, resume, load_checkpoint(file)) THEN AsSet(file.processed_urls) ELSE {},
     total_scraped |-> IF Resumes(themes, resume, load_checkpoint(file)) THEN file.total_scraped ELSE 0,
     scraped |-> <<>>, saved |-> <<>>, last |-> "start", ended |-> "none", done_theme |-> 0, done_page |-> 0]

\* scrape_stamp_page(page, url) was called
Visited(run, url) == [run EXCEPT !.scraped = Append(@, url)]

\* the stamp is of another year: marked as processed, not counted
OtherYear(run, url) == [Visited(run, url) EXCEPT !.processed_urls = @ \cup {url}]

\* the stamp is saved (not in a dry run), counted and marked as processed
Counted(run, url) == [Visited(run, url) EXCEPT !.saved = IF run.dry_run THEN @ ELSE Append(@, url), !.total_scraped = @ + 1, !.processed_urls = @ \cup {url}]

\* if limit and total_scraped >= limit
LimitReached(run) == run.limit # 0 /\ run.total_scraped >= run.limit

RECURSIVE ScrapeUrls(_, _, _, _)
\* for url in stamp_urls: ..., from position i on
ScrapeUrls(stamp_urls, i, run, outcomes) ==
    IF i > Len(stamp_urls) THEN run
    ELSE IF stamp_urls[i] \in run.processed_urls THEN ScrapeUrls(stamp_urls, i + 1, run, outcomes)
    ELSE IF outcomes[stamp_urls[i]] = "fail"
         THEN IF run.abort THEN [Visited(run, stamp_urls[i]) EXCEPT !.ended = "raised"]
              ELSE ScrapeUrls(stamp_urls, i + 1, Visited(run, stamp_urls[i]), outcomes)
    ELSE IF outcomes[stamp_urls[i]] = "year" THEN ScrapeUrls(stamp_urls, i + 1, OtherYear(run, stamp_urls[i]), outcomes)
    ELSE IF LimitReached(Counted(run, stamp_urls[i])) THEN [Counted(run, stamp_urls[i]) EXCEPT !.ended = "limit"]
    ELSE ScrapeUrls(stamp_urls, i + 1, Counted(run, stamp_urls[i]), outcomes)

\* the listing page could not be fetched: break, on to the next theme
NextTheme(run, last) == [run EXCEPT !.theme_idx = @ + 1, !.page_number = 1, !.last = last]

\* the page whose checkpoint was just saved
Done(run, theme) == [run EXCEPT !.done_theme = theme, !.done_page = run.page_number]

\* after the checkpoint of a page: the next page, or the next theme
AfterPage(run, theme, has_next) == IF has_next THEN [Done(run, theme) EXCEPT !.page_number = @ + 1, !.last = "page"] ELSE NextTheme(Done(run, theme), "page")

\* one pass of the while loop for a page that was fetched
PageDone(run, listing, outcomes) == ScrapeUrls(listing.stamp_urls, 1, run, outcomes)

sc_others == <<core_vars, eb_vars, sm_vars, br_vars, op_vars>>

InitScrape ==
    /\ CoreIdle
    /\ EmbedIdle
    /\ QueueIdle
    /\ GotoIdle
    /\ OrderIdle
    /\ sc_file = NoCheckpoint
    /\ sc_run = NoRun
    /\ sc_pc = "idle"
    /\ sc_result = 0
    /\ sc_calls = 0

\* scrape_themes(themes, resume, ..., dry_run, limit) up to the theme loop
ScrapeCall(themes, resume, limit, dry_run, abort) ==
    /\ sc_pc = "idle"
    /\ sc_calls < MaxScrapeCalls
    /\ sc_run' = StartRun(themes, resume, limit, dry_run, abort, sc_file)
    /\ sc_pc' = "running"
    /\ UNCHANGED <<sc_file, sc_result, sc_calls, sc_others>>

\* one pass of the while loop: a listing page, its stamps, the checkpoint
ScrapePage(fetched, outcomes) ==
    /\ sc_pc = "running"
    /\ sc_run.theme_idx <= Len(sc_run.themes)
    /\ LET theme == sc_run.themes[sc_run.theme_idx]
           listing == get_theme_stamp_urls(theme, sc_run.page_number)
           run == PageDone(sc_run, listing, outcomes)
       IN  IF ~fetched
           THEN /\ sc_run' = NextTheme(sc_run, "fetch_failed")
                /\ UNCHANGED <<sc_file, sc_pc, sc_result>>
           ELSE IF run.ended = "raised"
           THEN /\ sc_run' = run
                /\ sc_pc' = "raised"
                /\ UNCHANGED <<sc_file, sc_result>>
           ELSE IF run.ended = "limit"
           THEN /\ sc_run' = run
                /\ sc_pc' = "returned"
                /\ sc_result' = run.total_scraped
                /\ UNCHANGED sc_file
           ELSE /\ sc_file' = ScrapeCheckpoint(theme, run.page_number + 1, run.processed_urls, run.total_scraped)
                /\ sc_run' = AfterPage(run, theme, listing.has_next)
                /\ UNCHANGED <<sc_pc, sc_result>>
    /\ UNCHANGED <<sc_calls, sc_others>>

\* the theme loop is over: clear_checkpoint() and return total_scraped
ScrapeComplete ==
    /\ sc_pc = "running"
    /\ sc_run.theme_idx > Len(sc_run.themes)
    /\ sc_file' = NoCheckpoint
    /\ sc_run' = [sc_run EXCEPT !.ended = "complete", !.last = "cleared"]
    /\ sc_pc' = "returned"
    /\ sc_result' = sc_run.total_scraped
    /\ UNCHANGED <<sc_calls, sc_others>>

\* the caller goes on; the checkpoint file stays as the call left it
ScrapeNext ==
    /\ sc_pc \in {"returned", "raised"}
    /\ sc_run' = NoRun
    /\ sc_pc' = "idle"
    /\ sc_result' = 0
    /\ sc_calls' = sc_calls + 1
    /\ UNCHANGED <<sc_file, sc_others>>

NextScrape ==
    \/ \E themes \in ThemeLists, resume \in BOOLEAN, limit \in 0..MaxLimit, dry_run \in BOOLEAN, abort \in BOOLEAN : ScrapeCall(themes, resume, limit, dry_run, abort)
    \/ \E fetched \in BOOLEAN, outcomes \in [Urls -> StampOutcomes] : ScrapePage(fetched, outcomes)
    \/ ScrapeComplete
    \/ ScrapeNext

SpecScrape == InitScrape /\ [][NextScrape]_vars

\* the urls of a list
Listed(list) == {list[i] : i \in 1..Len(list)}

\* the stamps counted by the current call
CountedNow == sc_run.total_scraped - (IF Resumes(sc_run.themes, sc_run.resume, sc_run.loaded) THEN sc_run.loaded.total_scraped ELSE 0)

\* after a listing page the file holds the theme, the next page number, the
\* processed urls and the running count
CheckpointAfterPage ==
    sc_run.last = "page" /\ sc_pc = "running" =>
        /\ sc_file.exists
        /\ AsSet(sc_file.processed_urls) = sc_run.processed_urls
        /\ sc_file.total_scraped = sc_run.total_scraped
        /\ sc_file.theme = sc_run.done_theme
        /\ sc_file.page_number = sc_run.done_page + 1

\* the file is gone when the run has completed all themes
ClearedWhenComplete == sc_pc = "returned" /\ sc_run.ended = "complete" => ~sc_file.exists

\* with resume and a loaded checkpoint, no processed url is scraped or saved
\* again and the returned count continues from the checkpoint's total
ResumeSkipsProcessed ==
    sc_pc # "idle" /\ sc_run.resume /\ sc_run.loaded.exists =>
        /\ Listed(sc_run.scraped) \cap AsSet(sc_run.loaded.processed_urls) = {}
        /\ Listed(sc_run.saved) \cap AsSet(sc_run.loaded.processed_urls) = {}
        /\ sc_run.total_scraped >= sc_run.loaded.total_scraped
        /\ sc_pc = "returned" => sc_result >= sc_run.loaded.total_scraped

\* with a limit the returned count does not exceed the limit
WithinLimit == sc_pc = "returned" /\ sc_run.limit # 0 => sc_result <= sc_run.limit

\* C28: scrape_themes keeps its checkpoint consistent: a checkpoint with the
\* next page number, the processed urls and the running count is saved after
\* each listing page; with resume no url of the loaded checkpoint is scraped
\* or saved again and the count continues from the checkpoint's total; the
\* file is removed when the run completes all themes; with a limit the
\* returned count never exceeds the limit.
C28_CheckpointConsistent ==
    /\ CheckpointAfterPage
    /\ ClearedWhenComplete
    /\ ResumeSkipsProcessed
    /\ WithinLimit

\* what holds of the limit: a call that does not take over a checkpoint's
\* total stays within the limit, one that does counts at most one stamp
\* beyond the larger of the two
LimitWithoutResume ==
    sc_pc = "returned" /\ sc_run.limit # 0 =>
        IF Resumes(sc_run.themes, sc_run.resume, sc_run.loaded)
        THEN sc_result <= (IF sc_run.loaded.total_scraped >= sc_run.limit THEN sc_run.loaded.total_scraped + 1 ELSE sc_run.limit)
        ELSE sc_result <= sc_run.limit

\* what holds of resume: the checkpoint is taken over when its theme is in
\* the theme list
ResumeWhenThemeListed == Resumes(sc_run.themes, sc_run.resume, sc_run.loaded) => ResumeSkipsProcessed

\* the statement apart from the limit of a resumed call and the checkpoint
\* of a theme that is not in the list
ScrapeAsStatedOtherwise ==
    /\ CheckpointAfterPage
    /\ ClearedWhenComplete
    /\ ResumeWhenThemeListed
    /\ LimitWithoutResume

(***************************************************************************)
(* IdentificationResult: its properties, and C29 on SpecSearch             *)
(***************************************************************************)
\* IdentificationResult.has_match: len(self.top_matches) > 0
has_match(result) == Len(result.top_matches) > 0

\* IdentificationResult.best_match: the auto match if there is one, else the
\* first of top_matches, else None
best_match(result) ==
    IF ~result.auto_match.none THEN result.auto_match
    ELSE IF Len(result.top_matches) > 0 THEN result.top_matches[1]
    ELSE NoSearchResult

\* C29: every IdentificationResult that identify returns (top_k >= 1) is
\* consistent: auto_match is set exactly in the auto_accept tier and is then
\* top_matches[0]; top_matches is empty exactly in the no_match tier, so
\* has_match is true exactly in the other tiers; and best_match is the rank-1
\* result whenever there is a match.
C29_ResultConsistent ==
    sr_pc = "returned" =>
        /\ ~sr_outcome.value.none
        /\ ~sr_outcome.value.auto_match.none <=> TierIs("auto_accept")
        /\ ~sr_outcome.value.auto_match.none
              => /\ sr_outcome.value.top_matches # <<>>
                 /\ sr_outcome.value.auto_match = sr_outcome.value.top_matches[1]
        /\ sr_outcome.value.top_matches = <<>> <=> TierIs("no_match")
        /\ has_match(sr_outcome.value) <=> ~TierIs("no_match")
        /\ has_match(sr_outcome.value)
              => /\ best_match(sr_outcome.value) = sr_outcome.value.top_matches[1]
                 /\ best_match(sr_outcome.value).rank = 1
                 /\ \A k \in 1..Len(sr_outcome.value.top_matches) :
                       sr_outcome.value.top_matches[k].rank = k
        /\ ~has_match(sr_outcome.value) => best_match(sr_outcome.value).none

\* an auto_accept result with two matches, the best one being the auto match
C29_Witness ==
    /\ sr_pc = "returned"
    /\ TierIs("auto_accept")
    /\ sr_query.top_k = 2
    /\ Len(sr_outcome.value.top_matches) = 2
    /\ best_match(sr_outcome.value) = sr_outcome.value.auto_match

(***************************************************************************)
(* C30 on SpecIdentify: the session and the batch identify_image returns   *)
(***************************************************************************)
\* the accepted stamps up to the k-th whose _identify_stamp returned an
\* identification (nothing raised inside its try block)
Succeeded(k) == {i \in 1..k : id_attempts[i].failed = "none"}

====
